---- MODULE Spec2Model ----
(***************************************************************************)
(* sshfwd: the UI model and its update function (app.rs), the main loop    *)
(* and the discovery loop (main.rs), the discovery stream                  *)
(* (discovery/mod.rs) and the forward manager with its listener tasks      *)
(* (forward/mod.rs), as one state machine.                                 *)
(***************************************************************************)
EXTENDS Integers, Sequences, FiniteSets, TLC

(***************************************************************************)
(* Program constants                                                       *)
(***************************************************************************)
STALENESS_THRESHOLD_SECS == 6
MAX_CONSECUTIVE_TIMEOUTS == 3
U16_MAX == 65535
MAX_BUFFER_LEN == 5

(***************************************************************************)
(* Bounds of the model                                                     *)
(***************************************************************************)
\* longest background queue (the channel is unbounded in the program)
MaxBg == 2
\* longest forward-command queue (unbounded in the program)
MaxCmd == 2
\* listener tasks alive or still referenced by a handle at one time
MaxTasks == 3
\* tunnel connections open on one listener at one time
MaxConn == 1
\* connections one listener accepts while its history is kept
MaxAccepted == 3
\* the clock of the notifier stops at this tick
MaxNow == 9
\* changes passed to NotifyBatch::extend in all
MaxExtended == 3
\* read timeouts in a row the agent's stdout is made to produce
MaxTimeoutRun == 4

(***************************************************************************)
(* Input domains                                                           *)
(***************************************************************************)
\* Option<T>: the empty set is None, {x} is Some(x)
NoneOpt == {}
Some(x) == {x}
The(o) == CHOOSE x \in o : TRUE
Destination == "dest"
Hostnames == {"h"}
\* the remote ports a forward event given to update on its own can carry
RemotePorts == {1, 2}
\* seconds by which the clock can advance between two steps
Delays == {5, 6}
\* ports the kernel hands out for a bind to port 0
EphemeralPorts == {8, 9}

Tcp == "Tcp"
Tcp6 == "Tcp6"
LP(proto, addr, port, pid) ==
    [protocol |-> proto, local_addr |-> addr, port |-> port, process |-> pid]
\* the port lists an agent line carries in the combined system
\* (process is None or Some(pid))
ScanPortLists ==
    { <<>>,
      <<LP(Tcp, "a", 1, NoneOpt)>> }
\* the port lists of the scans given to update on its own
UpdatePortLists ==
    { <<>>,
      <<LP(Tcp, "a", 1, NoneOpt)>>,
      <<LP(Tcp, "a", 2, Some(7))>>,
      <<LP(Tcp, "a", 1, NoneOpt), LP(Tcp, "a", 2, Some(7))>>,
      <<LP(Tcp, "a", 2, Some(7)), LP(Tcp, "a", 1, NoneOpt)>> }
\* the local ports a forward event given to update on its own can carry
LocalPorts == {1, 3}
\* what ~/.sshfwd/forwards.json can hold for the destination at startup
PersistedAtStart == { {}, {[remote_port |-> 1, local_port |-> 3]} }

(***************************************************************************)
(* Helpers                                                                 *)
(***************************************************************************)
Min(a, b) == IF a < b THEN a ELSE b
Range(s) == {s[i] : i \in 1..Len(s)}
SeqOf(S, n) == UNION {[1..k -> S] : k \in 0..n}
\* the orders in which a HashMap iteration can visit the set S
Orders(S) == {s \in [1..Cardinality(S) -> S] : Range(s) = S}

VARIABLES
    \* Model (app.rs)
    hostname, ports, selected_index, connection_state, last_scan_at, running,
    forwards, modal, show_inactive_forwards,
    \* persistence file, channels and process (main.rs)
    saved, bgq, cmdq, exited, disc_done,
    \* the number of messages the main loop has processed, modulo 2
    iterations,
    \* DiscoveryStream, and the timed-out reads since the last line it read
    consecutive_timeouts, timeouts_in_a_row,
    \* ForwardManager and the listener tasks it spawned
    listeners, tasks,
    \* for each remote port, the local port its listener was bound on when the
    \* manager last paused it, since the last Start or Stop for that port
    paused_on,
    \* the activation of AgentManager::deploy_and_spawn and the one of
    \* authenticate (ssh/agent.rs, ssh/session.rs)
    deploy, auth,
    \* the last call of a function that has no state of its own: its name, its
    \* arguments and what it returned
    call,
    \* the sshfwd-agent process on the remote host (sshfwd-agent/src/main.rs)
    agent,
    \* the file $HOME/.sshfwd/forwards.json (forward/persistence.rs)
    store,
    \* for each listener task, the connections its accept loop has accepted,
    \* the tunnel tasks that have finished and the counts it has sent
    conn_log,
    \* a NotifyBatch, the clock it reads and the notifications it has sent
    \* (notify.rs)
    notifier,
    \* the remote account: the pid file, the agent processes and the client
    \* sessions that deploy to it (ssh/agent.rs, sshfwd-agent/src/main.rs)
    account,
    \* the ports of the remote host that listen and go on listening: every
    \* scan the agent writes from now on lists them
    held_open

modelVars == <<hostname, ports, selected_index, connection_state, last_scan_at,
               running, forwards, modal, show_inactive_forwards>>
fwdVars == <<listeners, tasks>>
vars == <<hostname, ports, selected_index, connection_state, last_scan_at, running,
          forwards, modal, show_inactive_forwards, saved, bgq, cmdq, exited,
          iterations, disc_done, consecutive_timeouts, timeouts_in_a_row, listeners,
          tasks, paused_on, deploy, auth, call, agent, store, conn_log,
          notifier, account, held_open>>

(***************************************************************************)
(* Values                                                                  *)
(***************************************************************************)
Active == "Active"
Paused == "Paused"
Starting == "Starting"
Connecting == "Connecting"
Connected == "Connected"
Disconnected == "Disconnected"

ForwardEntry(lp, st, n) == [local_port |-> lp, status |-> st, active_connections |-> n]

Start(rp, lp, host) ==
    [type |-> "Start", remote_port |-> rp, local_port |-> lp, remote_host |-> host]
Stop(rp) == [type |-> "Stop", remote_port |-> rp]
Reactivate(rp, lp, host) ==
    [type |-> "Reactivate", remote_port |-> rp, local_port |-> lp, remote_host |-> host]
Pause(rp) == [type |-> "Pause", remote_port |-> rp]

EvStarted(rp, lp) == [type |-> "Started", remote_port |-> rp, local_port |-> lp]
EvStopped(rp) == [type |-> "Stopped", remote_port |-> rp]
EvPaused(rp) == [type |-> "Paused", remote_port |-> rp]
EvBindError(rp, m) == [type |-> "BindError", remote_port |-> rp, message |-> m]
EvConnectionCountChanged(rp, n) ==
    [type |-> "ConnectionCountChanged", remote_port |-> rp, count |-> n]

MsgScanReceived(scan) == [type |-> "ScanReceived", scan |-> scan]
MsgDiscoveryWarning(w) == [type |-> "DiscoveryWarning", warning |-> w]
MsgDiscoveryError(e) == [type |-> "DiscoveryError", error |-> e]
MsgStreamEnded == [type |-> "StreamEnded"]
MsgForwardEvent(e) == [type |-> "ForwardEvent", event |-> e]
MsgTick == [type |-> "Tick"]

ModalNone == [kind |-> "None"]
PortInput(rp, buf, host, err) ==
    [kind |-> "PortInput", remote_port |-> rp, buffer |-> buf, remote_host |-> host,
     error |-> err]

(***************************************************************************)
(* format!("{}", port) and str::parse::<u16>, on sequences of digits       *)
(***************************************************************************)
RECURSIVE FormatPort(_)
FormatPort(n) == IF n < 10 THEN <<n>> ELSE Append(FormatPort(n \div 10), n % 10)

RECURSIVE DigitsValue(_)
DigitsValue(buf) ==
    IF buf = <<>> THEN 0
    ELSE 10 * DigitsValue(SubSeq(buf, 1, Len(buf) - 1)) + buf[Len(buf)]

\* NoneOpt stands for Err(_): the empty string, or a value that does not fit a u16
ParseU16(buf) ==
    IF buf = <<>> THEN NoneOpt
    ELSE IF DigitsValue(buf) > U16_MAX THEN NoneOpt ELSE Some(DigitsValue(buf))

(***************************************************************************)
(* Model::remote_host                                                      *)
(***************************************************************************)
RemoteHost(hn) == IF hn = NoneOpt THEN Destination ELSE The(hn)

(***************************************************************************)
(* The sort of update(ScanReceived): stable, by (port, pid or 0, protocol) *)
(***************************************************************************)
PidOf(p) == IF p.process = NoneOpt THEN 0 ELSE The(p.process)
ProtoOrd(proto) == IF proto = Tcp THEN 0 ELSE 1

\* a faulty comparison: the protocol does not break a tie
PortLessIgnoresProtocol(a, b) ==
    \/ a.port < b.port
    \/ a.port = b.port /\ PidOf(a) < PidOf(b)
PortLess(a, b) ==
    \/ a.port < b.port
    \/ a.port = b.port /\ PidOf(a) < PidOf(b)
    \/ a.port = b.port /\ PidOf(a) = PidOf(b) /\ ProtoOrd(a.protocol) < ProtoOrd(b.protocol)

RECURSIVE InsertPort(_, _)
InsertPort(x, s) ==
    IF s = <<>> THEN <<x>>
    ELSE IF PortLess(x, Head(s)) THEN <<x>> \o s
    ELSE <<Head(s)>> \o InsertPort(x, Tail(s))

RECURSIVE SortPorts(_)
SortPorts(s) ==
    IF s = <<>> THEN <<>>
    ELSE InsertPort(s[Len(s)], SortPorts(SubSeq(s, 1, Len(s) - 1)))

PortSet(pts) == {pts[i].port : i \in 1..Len(pts)}

(***************************************************************************)
(* ui/table.rs: build_display_rows                                         *)
(***************************************************************************)
RowPort(i) == [kind |-> "Port", arg |-> i]
RowInactiveForward(p) == [kind |-> "InactiveForward", arg |-> p]
RowSeparator == [kind |-> "Separator", arg |-> 0]

RowPortNumber(pts, r) == IF r.kind = "Port" THEN pts[r.arg].port ELSE r.arg
\* the comparator of forwarded.sort_by
RowLess(pts, a, b) ==
    \/ RowPortNumber(pts, a) < RowPortNumber(pts, b)
    \/ /\ RowPortNumber(pts, a) = RowPortNumber(pts, b)
       /\ \/ a.kind = "Port" /\ b.kind = "Port" /\ a.arg < b.arg
          \/ a.kind = "Port" /\ b.kind = "InactiveForward"

RECURSIVE SortRows(_, _)
SortRows(pts, S) ==
    IF S = {} THEN <<>>
    ELSE LET m == CHOOSE r \in S : \A o \in S \ {r} : ~RowLess(pts, o, r)
         IN <<m>> \o SortRows(pts, S \ {m})

RECURSIVE NonForwardedRows(_, _, _)
NonForwardedRows(pts, fwds, i) ==
    IF i > Len(pts) THEN <<>>
    ELSE (IF pts[i].port \in DOMAIN fwds THEN <<>> ELSE <<RowPort(i)>>)
         \o NonForwardedRows(pts, fwds, i + 1)

BuildDisplayRows(pts, fwds, show) ==
    LET forwarded ==
            {RowPort(i) : i \in {j \in 1..Len(pts) : pts[j].port \in DOMAIN fwds}}
            \cup (IF show
                  THEN {RowInactiveForward(p) :
                          p \in {q \in DOMAIN fwds :
                                   fwds[q].status = Paused /\ q \notin PortSet(pts)}}
                  ELSE {})
        non_forwarded == NonForwardedRows(pts, fwds, 1)
    IN SortRows(pts, forwarded)
       \o (IF forwarded # {} /\ non_forwarded # <<>> THEN <<RowSeparator>> ELSE <<>>)
       \o non_forwarded

\* rows.get(i) of a 0-based index
RowAt(rows, i) == IF i + 1 \in 1..Len(rows) THEN Some(rows[i + 1]) ELSE NoneOpt

(***************************************************************************)
(* Model::selected_port and adjust_selection                               *)
(***************************************************************************)
SelectedPort(pts, fwds, show, sel) ==
    LET r == RowAt(BuildDisplayRows(pts, fwds, show), sel)
    IN IF r # NoneOpt /\ The(r).kind = "Port" THEN Some(pts[The(r).arg].port)
       ELSE NoneOpt

AdjustSelection(pts, fwds, show, sel, target) ==
    LET rows == BuildDisplayRows(pts, fwds, show)
        hits == {i \in 1..Len(rows) :
                   rows[i].kind = "Port" /\ pts[rows[i].arg].port \in target}
        portRows == {i \in 1..Len(rows) : rows[i].kind = "Port"}
        last_port == IF portRows = {} THEN 0
                     ELSE (CHOOSE i \in portRows : \A j \in portRows : j <= i) - 1
        clamped == IF sel > last_port THEN last_port ELSE sel
    IN IF rows = <<>> THEN 0
       ELSE IF hits # {}
            THEN (CHOOSE i \in hits : \A j \in hits : i <= j) - 1
       ELSE IF RowAt(rows, clamped) = Some(RowSeparator)
            THEN (IF clamped = 0 THEN 0 ELSE clamped - 1)
       ELSE clamped

(***************************************************************************)
(* Init: Model::new, the persisted forwards loaded as paused entries,      *)
(* empty channels, a fresh DiscoveryStream and ForwardManager              *)
(***************************************************************************)
\* deploy_and_spawn when it is called: nothing has run. pc is the function it
\* calls next, trace the functions it has called, execs the commands it has
\* issued on the session, result what it has returned.
DeployStart ==
    [pc |-> "detect_platform", trace |-> <<>>, execs |-> <<>>, result |-> NoneOpt,
     platform |-> NoneOpt, agent_bytes |-> NoneOpt, hash_reply |-> NoneOpt,
     needs_upload |-> FALSE, pid_reply |-> NoneOpt, comm_reply |-> NoneOpt]

\* no function has been called
NoCall == [fn |-> "none", args |-> <<>>, result |-> <<>>]

\* the agent process when main is entered: nothing is written on stdout. pc is
\* where main is, once the --once flag, os the target the binary was built
\* for, scan_index the field of the scanner, lines the lines written on
\* stdout, writes the number of lines it has tried to write, iterations the
\* number of loop iterations begun, failure the write that failed, taken the
\* number of lines the client has read, runs the number of agent processes
\* started before this one.
AgentStart ==
    [pc |-> "main", once |-> FALSE, os |-> "linux", scan_index |-> 0, lines |-> <<>>,
     writes |-> 0, iterations |-> 0, failure |-> "none", taken |-> 0, runs |-> 0]

\* forwards.json before the program has touched it: the file does not exist,
\* and neither function of persistence.rs has been called. doc is the JSON
\* object of a file that holds one, as its pairs of key and value in the
\* order of the text.
NoFile == [kind |-> "absent", doc |-> <<>>]
NoStoreCall ==
    [fn |-> "none", destination |-> "", forwards |-> <<>>, written |-> FALSE,
     result |-> <<>>]
StoreStart == [file |-> NoFile, last |-> NoStoreCall]

\* no listener task has been spawned
ConnLogStart == <<>>

\* NotifyBatch::new
NotifyBatchNew == [pending |-> <<>>, last_change_at |-> NoneOpt]

\* the batch when it is made. now is the monotonic clock in ticks, shown the
\* notifications sent so far, each the list of changes it was given,
\* extended the number of changes passed to extend so far, last_extend the
\* time of the last extend that was given a change, and last the last call.
NotifierStart ==
    [batch |-> NotifyBatchNew, now |-> 0, shown |-> <<>>, extended |-> 0,
     last_extend |-> NoneOpt, last |-> [fn |-> "new", changes |-> <<>>, result |-> FALSE]]

\* the client sessions that connect to the one remote account
Sessions == {1, 2, 3}

\* the remote account before any session has deployed: no pid file and no
\* agent process. procs maps each pid that was given to an agent to the
\* session whose spawn_agent started it, whether it still runs and the
\* session whose kill command ended it, if one did; sessions is where each
\* client is.
AccountStart ==
    [pid_file |-> NoneOpt, procs |-> <<>>,
     sessions |-> [s \in Sessions |-> "new"]]

\* Session::connect before it calls authenticate. pc is the group of methods
\* authenticate is in, queue the methods of the group still to try, attempts
\* the methods it has tried, requests the keys it has sent to the server,
\* result what Session::connect has returned.
AuthStart ==
    [pc |-> "connect", identities |-> <<>>, identity_files |-> <<>>, queue |-> <<>>,
     attempts |-> <<>>, requests |-> <<>>, result |-> NoneOpt]

Init ==
    /\ deploy = DeployStart
    /\ auth = AuthStart
    /\ call = NoCall
    /\ agent = AgentStart
    /\ store = StoreStart
    /\ conn_log = ConnLogStart
    /\ notifier = NotifierStart
    /\ account = AccountStart
    /\ held_open = {}
    /\ hostname = NoneOpt
    /\ ports = <<>>
    /\ selected_index = 0
    /\ connection_state = Connecting
    /\ last_scan_at = NoneOpt
    /\ running = TRUE
    /\ modal = ModalNone
    /\ show_inactive_forwards \in BOOLEAN
    /\ saved \in PersistedAtStart
    /\ forwards = [p \in {pf.remote_port : pf \in saved} |->
                     ForwardEntry((CHOOSE pf \in saved : pf.remote_port = p).local_port,
                                  Paused, 0)]
    /\ bgq = <<>>
    /\ cmdq = <<>>
    /\ exited = FALSE
    /\ iterations = 0
    /\ disc_done = FALSE
    /\ consecutive_timeouts = 0
    /\ timeouts_in_a_row = 0
    /\ listeners = <<>>
    /\ tasks = <<>>
    /\ paused_on = [rp \in RemotePorts |-> NoneOpt]

(***************************************************************************)
(* app.rs: update                                                          *)
(***************************************************************************)
\* the commands returned by update are sent on the command channel in order
Emit(cmds) == cmdq' = cmdq \o cmds /\ Len(cmdq') <= MaxCmd

\* app.rs save_forwards: every entry of the model, as (remote_port, local_port)
SaveForwards(fwds) ==
    {[remote_port |-> p, local_port |-> fwds[p].local_port] : p \in DOMAIN fwds}

\* the first loop of the reconcile: which entries get a Pause
\* a faulty first loop: an entry still starting is not paused
PauseSetActiveOnly(fwds, current) ==
    {p \in DOMAIN fwds : fwds[p].status = Active /\ p \notin current}

PauseSet(fwds, current) ==
    {p \in DOMAIN fwds : fwds[p].status \in {Active, Starting} /\ p \notin current}

\* a faulty first loop: a paused entry is reactivated only by the first scan
\* that lists its port again, not by the scans after it
ReactivateSetOnReappearance(fwds, current) ==
    {p \in DOMAIN fwds :
        fwds[p].status = Paused /\ p \in current /\ p \notin PortSet(ports)}

\* the first loop of the reconcile: which entries get a Reactivate
ReactivateSet(fwds, current) ==
    {p \in DOMAIN fwds : fwds[p].status = Paused /\ p \in current}

\* a faulty first loop: the Reactivate asks for the remote port's number
\* instead of the local port the entry stores
ReconcileCommandsSamePort(fwds, current, host) ==
    {Pause(p) : p \in PauseSet(fwds, current)}
    \cup {Reactivate(p, p, host) : p \in ReactivateSet(fwds, current)}

ReconcileCommands(fwds, current, host) ==
    {Pause(p) : p \in PauseSet(fwds, current)}
    \cup {Reactivate(p, fwds[p].local_port, host) : p \in ReactivateSet(fwds, current)}

\* a faulty second loop: pausing an entry also clears its connection count
ReconcileStatusClearsCount(fwds, cmds) ==
    [p \in DOMAIN fwds |->
        IF Pause(p) \in cmds
        THEN [fwds[p] EXCEPT !.status = Paused, !.active_connections = 0]
        ELSE IF \E c \in cmds : c.type = "Reactivate" /\ c.remote_port = p
             THEN [fwds[p] EXCEPT !.status = Starting]
        ELSE fwds[p]]

\* the second loop of the reconcile: the status set for each command issued
ReconcileStatus(fwds, cmds) ==
    [p \in DOMAIN fwds |->
        IF Pause(p) \in cmds THEN [fwds[p] EXCEPT !.status = Paused]
        ELSE IF \E c \in cmds : c.type = "Reactivate" /\ c.remote_port = p
             THEN [fwds[p] EXCEPT !.status = Starting]
        ELSE fwds[p]]

UpdateScanReceived(scan) ==
    LET prev_selected ==
            SelectedPort(ports, forwards, show_inactive_forwards, selected_index)
        sorted == SortPorts(scan.ports)
        current_remote_ports == PortSet(sorted)
        commands == ReconcileCommands(forwards, current_remote_ports,
                                      RemoteHost(Some(scan.hostname)))
    IN /\ hostname' = Some(scan.hostname)
       /\ last_scan_at' = Some(0)
       /\ connection_state' = Connected
       /\ \E cmds \in Orders(commands) : Emit(cmds)
       /\ forwards' = ReconcileStatus(forwards, commands)
       /\ ports' = sorted
       /\ selected_index' =
            IF sorted # ports
            THEN AdjustSelection(sorted, forwards', show_inactive_forwards,
                                 selected_index, prev_selected)
            ELSE selected_index
       /\ UNCHANGED <<running, modal, saved>>

UpdateDiscoveryWarning ==
    /\ Emit(<<>>)
    /\ UNCHANGED <<hostname, ports, selected_index, connection_state, last_scan_at,
                   running, forwards, modal, saved>>

\* Message::DiscoveryError and Message::StreamEnded have the same arm
\* a faulty handler: the error disconnects, the main loop keeps running
UpdateDiscoveryErrorKeepsRunning ==
    /\ connection_state' = Disconnected
    /\ Emit(<<>>)
    /\ UNCHANGED <<hostname, ports, selected_index, last_scan_at, running, forwards,
                   modal, saved>>

UpdateDiscoveryError ==
    /\ connection_state' = Disconnected
    /\ running' = FALSE
    /\ Emit(<<>>)
    /\ UNCHANGED <<hostname, ports, selected_index, last_scan_at, forwards, modal,
                   saved>>

\* faulty staleness tests: one that forgets the age of the last scan, one
\* that needs more than the threshold
StaleAnyAge(last, state) ==
    last # NoneOpt /\ state = Connected

StaleStrict(last, state) ==
    last # NoneOpt /\ The(last) > STALENESS_THRESHOLD_SECS /\ state = Connected

Stale(last, state) ==
    last # NoneOpt /\ The(last) >= STALENESS_THRESHOLD_SECS /\ state = Connected

UpdateTick ==
    /\ connection_state' =
         IF Stale(last_scan_at, connection_state) THEN Disconnected
         ELSE connection_state
    /\ Emit(<<>>)
    /\ UNCHANGED <<hostname, ports, selected_index, last_scan_at, running, forwards,
                   modal, saved>>

RemoveKey(f, k) == [p \in (DOMAIN f) \ {k} |-> f[p]]
Insert(f, k, v) == [p \in (DOMAIN f) \cup {k} |-> IF p = k THEN v ELSE f[p]]

UpdateForwardEvent(evt) ==
    /\ Emit(<<>>)
    /\ UNCHANGED <<hostname, ports, connection_state, last_scan_at, running>>
    /\ CASE evt.type = "Started" ->
              /\ forwards' =
                   IF evt.remote_port \in DOMAIN forwards
                   THEN [forwards EXCEPT ![evt.remote_port] =
                            [@ EXCEPT !.local_port = evt.local_port, !.status = Active]]
                   ELSE forwards
              /\ saved' = SaveForwards(forwards')
              /\ UNCHANGED <<selected_index, modal>>
         [] evt.type = "Stopped" ->
              /\ forwards' = RemoveKey(forwards, evt.remote_port)
              /\ saved' = SaveForwards(forwards')
              /\ selected_index' =
                   AdjustSelection(ports, forwards', show_inactive_forwards,
                                   selected_index, Some(evt.remote_port))
              /\ UNCHANGED modal
         [] evt.type = "Paused" ->
              /\ forwards' =
                   IF evt.remote_port \in DOMAIN forwards
                   THEN [forwards EXCEPT ![evt.remote_port].status = Paused]
                   ELSE forwards
              /\ UNCHANGED <<selected_index, modal, saved>>
         [] evt.type = "BindError" ->
              /\ forwards' = RemoveKey(forwards, evt.remote_port)
              /\ modal' =
                   PortInput(evt.remote_port,
                             FormatPort(IF evt.remote_port \in DOMAIN forwards
                                        THEN forwards[evt.remote_port].local_port
                                        ELSE evt.remote_port),
                             RemoteHost(hostname), Some(evt.message))
              /\ selected_index' =
                   AdjustSelection(ports, forwards', show_inactive_forwards,
                                   selected_index, Some(evt.remote_port))
              /\ UNCHANGED saved
         [] evt.type = "ConnectionCountChanged" ->
              /\ forwards' =
                   IF evt.remote_port \in DOMAIN forwards
                   THEN [forwards EXCEPT ![evt.remote_port].active_connections =
                            evt.count]
                   ELSE forwards
              /\ UNCHANGED <<selected_index, modal, saved>>

(***************************************************************************)
(* Keys: KeyEvent as (code, character, CONTROL held, SHIFT held)           *)
(***************************************************************************)
KeyEvent(code, ch, ctrl, shift) == [code |-> code, ch |-> ch, ctrl |-> ctrl, shift |-> shift]
Char(c) == KeyEvent("Char", c, FALSE, FALSE)
KeyCtrlC == KeyEvent("Char", "c", TRUE, FALSE)
KeyEsc == KeyEvent("Esc", "", FALSE, FALSE)
KeyDown == KeyEvent("Down", "", FALSE, FALSE)
KeyUp == KeyEvent("Up", "", FALSE, FALSE)
KeyEnter == KeyEvent("Enter", "", FALSE, FALSE)
KeyShiftEnter == KeyEvent("Enter", "", FALSE, TRUE)
KeyBackspace == KeyEvent("Backspace", "", FALSE, FALSE)

IsAsciiDigit(c) == c \in {"0", "1", "2", "3", "4", "5", "6", "7", "8", "9"}
DigitOf(c) ==
    CASE c = "0" -> 0 [] c = "1" -> 1 [] c = "2" -> 2 [] c = "3" -> 3 [] c = "4" -> 4
      [] c = "5" -> 5 [] c = "6" -> 6 [] c = "7" -> 7 [] c = "8" -> 8 [] c = "9" -> 9

\* the keys the user presses in the combined system
Keys ==
    {Char("q"), KeyEsc, KeyCtrlC, Char("j"), KeyDown, Char("k"), KeyUp, Char("g"),
     Char("G"), KeyEnter, KeyShiftEnter, Char("f"), Char("F"), KeyBackspace, Char("x")}

(***************************************************************************)
(* app.rs: handle_normal_key                                               *)
(***************************************************************************)
\* a faulty Shift+Enter or 'F': no test for an existing entry, the port input
\* opens for any selected port
OpenPortInputAnyPort ==
    LET sp == SelectedPort(ports, forwards, show_inactive_forwards, selected_index)
    IN /\ modal' = IF sp # NoneOpt
                   THEN PortInput(The(sp), FormatPort(The(sp)), RemoteHost(hostname),
                                  NoneOpt)
                   ELSE modal
       /\ Emit(<<>>)
       /\ UNCHANGED <<running, selected_index, forwards>>

\* Shift+Enter or 'F': open the port input for a selected port that has no
\* forward entry
OpenPortInput ==
    LET sp == SelectedPort(ports, forwards, show_inactive_forwards, selected_index)
    IN /\ modal' = IF sp # NoneOpt /\ The(sp) \notin DOMAIN forwards
                   THEN PortInput(The(sp), FormatPort(The(sp)), RemoteHost(hostname),
                                  NoneOpt)
                   ELSE modal
       /\ Emit(<<>>)
       /\ UNCHANGED <<running, selected_index, forwards>>

\* a faulty toggle: no test for an existing entry, the forward is started anew
ToggleForwardRestart ==
    LET sp == SelectedPort(ports, forwards, show_inactive_forwards, selected_index)
    IN IF sp = NoneOpt
       THEN Emit(<<>>) /\ UNCHANGED <<running, selected_index, forwards, modal>>
       ELSE /\ forwards' = Insert(forwards, The(sp), ForwardEntry(The(sp), Starting, 0))
            /\ Emit(<<Start(The(sp), The(sp), RemoteHost(hostname))>>)
            /\ selected_index' =
                 AdjustSelection(ports, forwards', show_inactive_forwards,
                                 selected_index, sp)
            /\ UNCHANGED <<running, modal>>

\* Enter or 'f': start a forward for the selected port, or stop the existing one
ToggleForward ==
    LET sp == SelectedPort(ports, forwards, show_inactive_forwards, selected_index)
    IN IF sp = NoneOpt
       THEN Emit(<<>>) /\ UNCHANGED <<running, selected_index, forwards, modal>>
       ELSE IF The(sp) \notin DOMAIN forwards
       THEN /\ forwards' = Insert(forwards, The(sp), ForwardEntry(The(sp), Starting, 0))
            /\ Emit(<<Start(The(sp), The(sp), RemoteHost(hostname))>>)
            /\ selected_index' =
                 AdjustSelection(ports, forwards', show_inactive_forwards,
                                 selected_index, sp)
            /\ UNCHANGED <<running, modal>>
       ELSE /\ Emit(<<Stop(The(sp))>>)
            /\ UNCHANGED <<running, selected_index, forwards, modal>>

MoveDown ==
    LET rows == BuildDisplayRows(ports, forwards, show_inactive_forwards)
        last == IF Len(rows) = 0 THEN 0 ELSE Len(rows) - 1
        next == selected_index + 1
    IN /\ selected_index' =
            IF selected_index < last
            THEN (IF RowAt(rows, next) = Some(RowSeparator)
                  THEN Min(next + 1, last) ELSE next)
            ELSE selected_index
       /\ Emit(<<>>)
       /\ UNCHANGED <<running, forwards, modal>>

MoveUp ==
    LET rows == BuildDisplayRows(ports, forwards, show_inactive_forwards)
        prev == selected_index - 1
    IN /\ selected_index' =
            IF selected_index > 0
            THEN (IF RowAt(rows, prev) = Some(RowSeparator)
                  THEN (IF prev = 0 THEN 0 ELSE prev - 1) ELSE prev)
            ELSE selected_index
       /\ Emit(<<>>)
       /\ UNCHANGED <<running, forwards, modal>>

GoToBottom ==
    LET rows == BuildDisplayRows(ports, forwards, show_inactive_forwards)
        portRows == {i \in 1..Len(rows) : rows[i].kind = "Port"}
    IN /\ selected_index' =
            IF portRows = {} THEN selected_index
            ELSE (CHOOSE i \in portRows : \A j \in portRows : j <= i) - 1
       /\ Emit(<<>>)
       /\ UNCHANGED <<running, forwards, modal>>

HandleNormalKey(key) ==
    CASE key.code = "Esc" \/ (key.code = "Char" /\ key.ch = "q") ->
           /\ running' = FALSE
           /\ Emit(<<>>)
           /\ UNCHANGED <<selected_index, forwards, modal>>
      [] key.code = "Char" /\ key.ch = "c" /\ key.ctrl ->
           /\ running' = FALSE
           /\ Emit(<<>>)
           /\ UNCHANGED <<selected_index, forwards, modal>>
      [] key.code = "Down" \/ (key.code = "Char" /\ key.ch = "j") -> MoveDown
      [] key.code = "Up" \/ (key.code = "Char" /\ key.ch = "k") -> MoveUp
      [] key.code = "Char" /\ key.ch = "g" ->
           /\ selected_index' = 0
           /\ Emit(<<>>)
           /\ UNCHANGED <<running, forwards, modal>>
      [] key.code = "Char" /\ key.ch = "G" -> GoToBottom
      [] key.code = "Enter" /\ key.shift -> OpenPortInput
      [] (key.code = "Enter" /\ ~key.shift) \/ (key.code = "Char" /\ key.ch = "f") ->
           ToggleForward
      [] key.code = "Char" /\ key.ch = "F" -> OpenPortInput
      [] OTHER ->
           /\ Emit(<<>>)
           /\ UNCHANGED <<running, selected_index, forwards, modal>>

(***************************************************************************)
(* app.rs: handle_port_input_key                                           *)
(***************************************************************************)
\* a faulty confirm: any buffer that parses is accepted, port 0 too
ConfirmPortInputAcceptsZero ==
    LET remote_port == modal.remote_port
        parsed == ParseU16(modal.buffer)
        valid == parsed # NoneOpt
    IN /\ forwards' =
            IF valid
            THEN Insert(forwards, remote_port, ForwardEntry(The(parsed), Starting, 0))
            ELSE forwards
       /\ Emit(IF valid
               THEN (IF remote_port \in DOMAIN forwards THEN <<Stop(remote_port)>>
                     ELSE <<>>)
                    \o <<Start(remote_port, The(parsed), modal.remote_host)>>
               ELSE <<>>)
       /\ modal' = ModalNone
       /\ selected_index' =
            AdjustSelection(ports, forwards', show_inactive_forwards, selected_index,
                            Some(remote_port))
       /\ UNCHANGED running

ConfirmPortInput ==
    LET remote_port == modal.remote_port
        parsed == ParseU16(modal.buffer)
        valid == parsed # NoneOpt /\ The(parsed) > 0
    IN /\ forwards' =
            IF valid
            THEN Insert(forwards, remote_port, ForwardEntry(The(parsed), Starting, 0))
            ELSE forwards
       /\ Emit(IF valid
               THEN (IF remote_port \in DOMAIN forwards THEN <<Stop(remote_port)>>
                     ELSE <<>>)
                    \o <<Start(remote_port, The(parsed), modal.remote_host)>>
               ELSE <<>>)
       /\ modal' = ModalNone
       /\ selected_index' =
            AdjustSelection(ports, forwards', show_inactive_forwards, selected_index,
                            Some(remote_port))
       /\ UNCHANGED running

HandlePortInputKey(key) ==
    CASE key.code = "Esc" ->
           /\ modal' = ModalNone
           /\ Emit(<<>>)
           /\ UNCHANGED <<running, selected_index, forwards>>
      [] key.code = "Enter" -> ConfirmPortInput
      [] key.code = "Char" /\ IsAsciiDigit(key.ch) ->
           /\ modal' =
                IF Len(modal.buffer) < MAX_BUFFER_LEN
                THEN [modal EXCEPT !.buffer = Append(@, DigitOf(key.ch)),
                                   !.error = NoneOpt]
                ELSE modal
           /\ Emit(<<>>)
           /\ UNCHANGED <<running, selected_index, forwards>>
      [] key.code = "Backspace" ->
           /\ modal' =
                [modal EXCEPT !.buffer = IF @ = <<>> THEN <<>>
                                         ELSE SubSeq(@, 1, Len(@) - 1),
                              !.error = NoneOpt]
           /\ Emit(<<>>)
           /\ UNCHANGED <<running, selected_index, forwards>>
      [] OTHER ->
           /\ Emit(<<>>)
           /\ UNCHANGED <<running, selected_index, forwards, modal>>

UpdateKey(key) ==
    /\ IF modal = ModalNone THEN HandleNormalKey(key) ELSE HandlePortInputKey(key)
    /\ UNCHANGED <<hostname, ports, connection_state, last_scan_at, saved>>

\* update, by message
Update(msg) ==
    CASE msg.type = "ScanReceived" -> UpdateScanReceived(msg.scan)
      [] msg.type = "DiscoveryWarning" -> UpdateDiscoveryWarning
      [] msg.type \in {"DiscoveryError", "StreamEnded"} -> UpdateDiscoveryError
      [] msg.type = "ForwardEvent" -> UpdateForwardEvent(msg.event)
      [] msg.type = "Tick" -> UpdateTick
      [] msg.type = "Key" -> UpdateKey(msg.key)

MsgKey(key) == [type |-> "Key", key |-> key]

(***************************************************************************)
(* main.rs: the main loop. One step receives one message, applies update,  *)
(* queues the returned commands, and leaves the loop (exits the process)   *)
(* when running is false.                                                  *)
(***************************************************************************)
MainLoopKey ==
    /\ running /\ ~exited
    /\ \E key \in Keys : Update(MsgKey(key))
    /\ exited' = ~running'
    /\ iterations' = 1 - iterations
    /\ UNCHANGED <<show_inactive_forwards, bgq, disc_done, consecutive_timeouts, timeouts_in_a_row,
                   listeners, paused_on, tasks, deploy, auth,
                   call, agent, store,
                   conn_log, notifier, account, held_open>>

MainLoopBg ==
    /\ running /\ ~exited
    /\ bgq # <<>>
    /\ Update(Head(bgq))
    /\ bgq' = Tail(bgq)
    /\ exited' = ~running'
    /\ iterations' = 1 - iterations
    /\ UNCHANGED <<show_inactive_forwards, disc_done, consecutive_timeouts, timeouts_in_a_row,
                   listeners, paused_on, tasks, deploy, auth,
                   call, agent, store,
                   conn_log, notifier, account, held_open>>

\* crossterm::event::read fails: the keyboard thread ends, the rendezvous
\* channel closes and the main loop breaks
KeyboardClosed ==
    /\ running /\ ~exited
    /\ exited' = TRUE
    /\ UNCHANGED <<hostname, ports, selected_index, connection_state, last_scan_at,
                   running, forwards, modal, show_inactive_forwards, saved, bgq, cmdq,
                   iterations, disc_done, consecutive_timeouts, timeouts_in_a_row,
                   listeners, paused_on, tasks, deploy, auth,
                   call, agent, store,
                   conn_log, notifier, account, held_open>>

\* the tick thread: one Tick per second on the background channel
TickThread ==
    /\ ~exited
    /\ Len(bgq) < MaxBg
    /\ bgq' = Append(bgq, MsgTick)
    /\ UNCHANGED <<hostname, ports, selected_index, connection_state, last_scan_at,
                   running, forwards, modal, show_inactive_forwards, saved, cmdq,
                   exited, iterations, disc_done, consecutive_timeouts, timeouts_in_a_row, listeners, paused_on, tasks, deploy, auth,
                   call, agent, store,
                   conn_log, notifier, account, held_open>>

\* Time passes. last_scan_at holds the seconds elapsed since the Instant the
\* program stored, saturating at the threshold the only reader compares with.
Elapse(last, d) ==
    IF last = NoneOpt THEN NoneOpt
    ELSE Some(Min(The(last) + d, STALENESS_THRESHOLD_SECS))

Advance ==
    /\ ~exited
    /\ \E d \in Delays : last_scan_at' = Elapse(last_scan_at, d)
    /\ UNCHANGED <<hostname, ports, selected_index, connection_state, running,
                   forwards, modal, show_inactive_forwards, saved, bgq, cmdq, exited, iterations,
                   disc_done, consecutive_timeouts, timeouts_in_a_row, listeners, paused_on, tasks, deploy, auth,
                   call, agent, store,
                   conn_log, notifier, account, held_open>>

(***************************************************************************)
(* discovery/mod.rs: DiscoveryStream::next_event                           *)
(***************************************************************************)
\* what one timed read of the agent's stdout can give: a line that decodes to
\* a scan or to an agent error, a line that does not decode, the end of the
\* stream, an I/O error, or no line within STALENESS_TIMEOUT
ReadKinds == {"ok_line", "error_line", "bad_line", "eof", "io_error", "timeout"}
ReadOutcomes(kinds) ==
    {[kind |-> "ok_line", hostname |-> h, ports |-> ps] :
        h \in Hostnames, ps \in IF "ok_line" \in kinds THEN ScanPortLists ELSE {}}
    \cup {[kind |-> k, hostname |-> "", ports |-> <<>>] : k \in kinds \ {"ok_line"}}

EventScan(scan) == [kind |-> "Scan", scan |-> scan]
EventWarning(w) == [kind |-> "Warning", warning |-> w]
EventError(e) == [kind |-> "Error", error |-> e]

\* a faulty counter: only a scan line resets it, an error line of the agent
\* does not
TimeoutsAfterKeepsCount(ct, read) ==
    IF read.kind = "ok_line" THEN 0
    ELSE IF read.kind = "timeout" THEN ct + 1
    ELSE ct

\* the counter after the read
TimeoutsAfter(ct, read) ==
    IF read.kind \in {"ok_line", "error_line", "bad_line"} THEN 0
    ELSE IF read.kind = "timeout" THEN ct + 1
    ELSE ct

\* the event returned for the read
NextEvent(ct, read) ==
    CASE read.kind = "ok_line" ->
           EventScan([hostname |-> read.hostname, ports |-> read.ports])
      [] read.kind = "error_line" -> EventWarning([kind |-> "agent_error"])
      [] read.kind = "bad_line" -> EventError([kind |-> "Parse"])
      [] read.kind = "eof" -> EventError([kind |-> "StreamEnded"])
      [] read.kind = "io_error" -> EventError([kind |-> "Parse"])
      [] read.kind = "timeout" ->
           IF ct + 1 >= MAX_CONSECUTIVE_TIMEOUTS
           THEN EventError([kind |-> "Timeout", consecutive |-> ct + 1])
           ELSE EventWarning([kind |-> "timeout", n |-> ct + 1,
                              max |-> MAX_CONSECUTIVE_TIMEOUTS])

\* main.rs: what the discovery loop sends for an event
DiscoveryMessage(ev) ==
    CASE ev.kind = "Scan" -> MsgScanReceived(ev.scan)
      [] ev.kind = "Warning" -> MsgDiscoveryWarning(ev.warning)
      [] ev.kind = "Error" -> MsgDiscoveryError(ev.error)
      [] OTHER -> MsgStreamEnded

\* main.rs: one turn of the discovery loop, for a read of one of the kinds
DiscoveryTurn(kinds) ==
    /\ ~exited /\ ~disc_done
    /\ Len(bgq) < MaxBg
    /\ \E read \in ReadOutcomes(kinds) :
         LET ev == NextEvent(consecutive_timeouts, read)
         IN /\ read.kind = "timeout" => timeouts_in_a_row < MaxTimeoutRun
            /\ timeouts_in_a_row' =
                 IF read.kind = "timeout" THEN timeouts_in_a_row + 1
                 ELSE IF read.kind \in {"ok_line", "error_line", "bad_line"} THEN 0
                 ELSE timeouts_in_a_row
            /\ consecutive_timeouts' = TimeoutsAfter(consecutive_timeouts, read)
            /\ bgq' = Append(bgq, DiscoveryMessage(ev))
            /\ disc_done' = (ev.kind \notin {"Scan", "Warning"})
    /\ UNCHANGED <<hostname, ports, selected_index, connection_state, last_scan_at,
                   running, forwards, modal, show_inactive_forwards, saved, cmdq,
                   exited, iterations, listeners, paused_on, tasks, deploy, auth,
                   call, agent, store,
                   conn_log, notifier, account, held_open>>

\* the combined system reads lines and the end of the stream
DiscoveryLoop == DiscoveryTurn({"ok_line", "eof"})

(***************************************************************************)
(* forward/mod.rs: ForwardManager. listeners maps a remote port to its     *)
(* ListenerHandle; tasks holds the listener tasks the runtime still runs,  *)
(* keyed by the task a handle's abort_handle names. An aborted or finished *)
(* task leaves tasks: its TcpListener and its JoinSet of tunnels are       *)
(* dropped with it.                                                        *)
(***************************************************************************)
TaskIds == 1..MaxTasks
ListenerHandle(lp, host, id) ==
    [local_port |-> lp, remote_host |-> host, abort_handle |-> id]
ListenerTask(rp, lp, host) ==
    [remote_port |-> rp, local_port |-> lp, remote_host |-> host,
     state |-> "spawned", bound |-> NoneOpt, conns |-> 0]

\* AbortHandle::abort: cancels the task if it still runs. The runtime is
\* single-threaded (main.rs, new_current_thread) and the manager does not await
\* inside a handler, so the cancelled task is dropped, and its listener and
\* connections closed, before any task spawned later is polled: the task is
\* removed at once.
Abort(ts, id) == [i \in (DOMAIN ts) \ {id} |-> ts[i]]

\* the local ports held by a listening task
BoundPorts(ts) == UNION {ts[i].bound : i \in DOMAIN ts}

Send(m) == Len(bgq) < MaxBg /\ bgq' = Append(bgq, m)
SendEvent(e) == Send(MsgForwardEvent(e))

\* listeners and tasks after handle_start
StartedListeners(ls, rp, lp, host, id) == Insert(ls, rp, ListenerHandle(lp, host, id))
\* a faulty handle_start: the existing listener is not aborted
StartedTasksNoAbort(ts, ls, rp, lp, host, id) ==
    Insert(ts, id, ListenerTask(rp, lp, host))

StartedTasks(ts, ls, rp, lp, host, id) ==
    LET kept == IF rp \in DOMAIN ls THEN Abort(ts, ls[rp].abort_handle) ELSE ts
    IN Insert(kept, id, ListenerTask(rp, lp, host))

HandleStart(rp, lp, host) ==
    \E id \in TaskIds :
       /\ id \notin DOMAIN tasks
       /\ \A q \in DOMAIN listeners : listeners[q].abort_handle # id
       /\ \A j \in TaskIds :
            (j \notin DOMAIN tasks /\ \A q \in DOMAIN listeners : listeners[q].abort_handle # j)
            => id <= j
       /\ tasks' = StartedTasks(tasks, listeners, rp, lp, host, id)
       /\ listeners' = StartedListeners(listeners, rp, lp, host, id)
       /\ UNCHANGED bgq

\* a faulty handle_stop: the mapping is dropped but its task is not aborted
StoppedTasksKeepsListener(ts, ls, rp) == ts

StoppedTasks(ts, ls, rp) ==
    IF rp \in DOMAIN ls THEN Abort(ts, ls[rp].abort_handle) ELSE ts

HandleStop(rp) ==
    /\ tasks' = StoppedTasks(tasks, listeners, rp)
    /\ listeners' = RemoveKey(listeners, rp)
    /\ SendEvent(EvStopped(rp))

\* a faulty handle_pause: the listener task is not aborted
PausedTasksKeepsListener(ts, ls, rp) == ts

PausedTasks(ts, ls, rp) ==
    IF rp \in DOMAIN ls THEN Abort(ts, ls[rp].abort_handle) ELSE ts

\* the handle is re-inserted as it was: listeners is unchanged
HandlePause(rp) ==
    /\ tasks' = PausedTasks(tasks, listeners, rp)
    /\ listeners' = listeners
    /\ SendEvent(EvPaused(rp))

\* a faulty Reactivate: without a retained mapping it falls back to the remote
\* port's number, not to the local port supplied
ReactivatePortOwnDefault(ls, rp, lp) == IF rp \in DOMAIN ls THEN ls[rp].local_port ELSE rp

\* the local port a Reactivate binds
ReactivatePort(ls, rp, lp) == IF rp \in DOMAIN ls THEN ls[rp].local_port ELSE lp

\* the local port of the listener that handle_pause cancels, if it is bound
PausedOn(ts, ls, rp, before) ==
    IF /\ rp \in DOMAIN ls
       /\ ls[rp].abort_handle \in DOMAIN ts
       /\ ts[ls[rp].abort_handle].state = "listening"
    THEN ts[ls[rp].abort_handle].bound
    ELSE before

\* paused_on after the manager has handled cmd
PausedOnAfter(cmd) ==
    CASE cmd.type \in {"Start", "Stop"} ->
           [paused_on EXCEPT ![cmd.remote_port] = NoneOpt]
      [] cmd.type = "Reactivate" -> paused_on
      [] cmd.type = "Pause" ->
           [paused_on EXCEPT ![cmd.remote_port] =
               PausedOn(tasks, listeners, cmd.remote_port, @)]

HandleCommand(cmd) ==
    CASE cmd.type = "Start" -> HandleStart(cmd.remote_port, cmd.local_port, cmd.remote_host)
      [] cmd.type = "Stop" -> HandleStop(cmd.remote_port)
      [] cmd.type = "Reactivate" ->
           HandleStart(cmd.remote_port,
                       ReactivatePort(listeners, cmd.remote_port, cmd.local_port),
                       cmd.remote_host)
      [] cmd.type = "Pause" -> HandlePause(cmd.remote_port)

\* a faulty run: the command queued last is received first
ForwardManagerRunNewestFirst ==
    /\ ~exited
    /\ cmdq # <<>>
    /\ HandleCommand(cmdq[Len(cmdq)])
    /\ cmdq' = SubSeq(cmdq, 1, Len(cmdq) - 1)
    /\ UNCHANGED <<hostname, ports, selected_index, connection_state, last_scan_at,
                   running, forwards, modal, show_inactive_forwards, saved, exited,
                   iterations, disc_done, consecutive_timeouts, timeouts_in_a_row,
                   paused_on, deploy, auth,
                   call, agent, store,
                   conn_log, notifier, account, held_open>>

\* ForwardManager::run: one command received and handled
ForwardManagerRun ==
    /\ ~exited
    /\ cmdq # <<>>
    /\ HandleCommand(Head(cmdq))
    /\ cmdq' = Tail(cmdq)
    /\ UNCHANGED <<hostname, ports, selected_index, connection_state, last_scan_at,
                   running, forwards, modal, show_inactive_forwards, saved, exited,
                   iterations, disc_done, consecutive_timeouts, timeouts_in_a_row,
                   paused_on, deploy, auth,
                   call, agent, store,
                   conn_log, notifier, account, held_open>>

\* the same step, with the history of the paused listeners recorded
ForwardManagerRunRecorded ==
    /\ ~exited
    /\ cmdq # <<>>
    /\ HandleCommand(Head(cmdq))
    /\ cmdq' = Tail(cmdq)
    /\ paused_on' = PausedOnAfter(Head(cmdq))
    /\ UNCHANGED <<hostname, ports, selected_index, connection_state, last_scan_at,
                   running, forwards, modal, show_inactive_forwards, saved, exited,
                   iterations, disc_done, consecutive_timeouts, timeouts_in_a_row,
                   deploy, auth,
                   call, agent, store,
                   conn_log, notifier, account, held_open>>

(***************************************************************************)
(* The listener task spawned by handle_start                               *)
(***************************************************************************)
\* e.to_string() of a failed bind. The text is tagged with the local port of
\* the attempt, which the program's text does not name, so that a property
\* can tell which attempt an event reports; update only copies the message.
BindFailure(lp) == [os_error |-> "bind failed", attempted |-> lp]

\* the ports TcpListener::bind can give for a requested port
BindCandidates(lp) == IF lp = 0 THEN EphemeralPorts ELSE {lp}

\* a faulty listener task: Started carries the port that was asked for
TaskBindReportsRequest ==
    /\ ~exited
    /\ \E id \in DOMAIN tasks :
         /\ tasks[id].state = "spawned"
         /\ \E actual \in BindCandidates(tasks[id].local_port) \ BoundPorts(tasks) :
              /\ tasks' = [tasks EXCEPT ![id].state = "listening",
                                        ![id].bound = Some(actual)]
              /\ SendEvent(EvStarted(tasks[id].remote_port, tasks[id].local_port))
    /\ UNCHANGED <<hostname, ports, selected_index, connection_state, last_scan_at,
                   running, forwards, modal, show_inactive_forwards, saved, cmdq,
                   exited, iterations, disc_done, consecutive_timeouts,
                   timeouts_in_a_row, listeners, paused_on, deploy, auth,
                   call, agent, store,
                   conn_log, notifier, account, held_open>>

\* first poll: bind succeeds on a free port and Started is sent
TaskBind ==
    /\ ~exited
    /\ \E id \in DOMAIN tasks :
         /\ tasks[id].state = "spawned"
         /\ \E actual \in BindCandidates(tasks[id].local_port) \ BoundPorts(tasks) :
              /\ tasks' = [tasks EXCEPT ![id].state = "listening",
                                        ![id].bound = Some(actual)]
              /\ SendEvent(EvStarted(tasks[id].remote_port, actual))
    /\ UNCHANGED <<hostname, ports, selected_index, connection_state, last_scan_at,
                   running, forwards, modal, show_inactive_forwards, saved, cmdq,
                   exited, iterations, disc_done, consecutive_timeouts, timeouts_in_a_row, listeners, paused_on, deploy, auth,
                   call, agent, store,
                   conn_log, notifier, account, held_open>>

\* a faulty listener task: a failed bind ends the task without an event
TaskBindErrorSilent ==
    /\ ~exited
    /\ \E id \in DOMAIN tasks :
         /\ tasks[id].state = "spawned"
         /\ tasks' = Abort(tasks, id)
    /\ UNCHANGED <<hostname, ports, selected_index, connection_state, last_scan_at,
                   running, forwards, modal, show_inactive_forwards, saved, bgq, cmdq,
                   exited, iterations, disc_done, consecutive_timeouts,
                   timeouts_in_a_row, listeners, paused_on, deploy, auth,
                   call, agent, store,
                   conn_log, notifier, account, held_open>>

\* first poll: bind fails (the port is held by a listener of this process or
\* by another process), BindError is sent and the task returns
TaskBindError ==
    /\ ~exited
    /\ \E id \in DOMAIN tasks :
         /\ tasks[id].state = "spawned"
         /\ tasks' = Abort(tasks, id)
         /\ SendEvent(EvBindError(tasks[id].remote_port,
                                  BindFailure(tasks[id].local_port)))
    /\ UNCHANGED <<hostname, ports, selected_index, connection_state, last_scan_at,
                   running, forwards, modal, show_inactive_forwards, saved, cmdq,
                   exited, iterations, disc_done, consecutive_timeouts, timeouts_in_a_row, listeners, paused_on, deploy, auth,
                   call, agent, store,
                   conn_log, notifier, account, held_open>>

\* accept returns a connection: the counter goes up, the event is sent and a
\* tunnel task is spawned
TaskAccept ==
    /\ ~exited
    /\ \E id \in DOMAIN tasks :
         /\ tasks[id].state = "listening"
         /\ tasks[id].conns < MaxConn
         /\ tasks' = [tasks EXCEPT ![id].conns = @ + 1]
         /\ SendEvent(EvConnectionCountChanged(tasks[id].remote_port,
                                               tasks[id].conns + 1))
    /\ UNCHANGED <<hostname, ports, selected_index, connection_state, last_scan_at,
                   running, forwards, modal, show_inactive_forwards, saved, cmdq,
                   exited, iterations, disc_done, consecutive_timeouts, timeouts_in_a_row, listeners, paused_on, deploy, auth,
                   call, agent, store,
                   conn_log, notifier, account, held_open>>

\* accept returns an error: the loop breaks and the task ends without an event
TaskAcceptError ==
    /\ ~exited
    /\ \E id \in DOMAIN tasks :
         /\ tasks[id].state = "listening"
         /\ tasks' = Abort(tasks, id)
    /\ UNCHANGED <<hostname, ports, selected_index, connection_state, last_scan_at,
                   running, forwards, modal, show_inactive_forwards, saved, bgq, cmdq,
                   exited, iterations, disc_done, consecutive_timeouts, timeouts_in_a_row, listeners, paused_on, deploy, auth,
                   call, agent, store,
                   conn_log, notifier, account, held_open>>

\* a tunnel task finishes: the counter goes down and the event is sent
TunnelFinished ==
    /\ ~exited
    /\ \E id \in DOMAIN tasks :
         /\ tasks[id].conns > 0
         /\ tasks' = [tasks EXCEPT ![id].conns = @ - 1]
         /\ SendEvent(EvConnectionCountChanged(tasks[id].remote_port,
                                               tasks[id].conns - 1))
    /\ UNCHANGED <<hostname, ports, selected_index, connection_state, last_scan_at,
                   running, forwards, modal, show_inactive_forwards, saved, cmdq,
                   exited, iterations, disc_done, consecutive_timeouts, timeouts_in_a_row, listeners, paused_on, deploy, auth,
                   call, agent, store,
                   conn_log, notifier, account, held_open>>

Next ==
    \/ MainLoopKey
    \/ MainLoopBg
    \/ KeyboardClosed
    \/ DiscoveryLoop
    \/ ForwardManagerRun
    \/ TaskBind
    \/ TaskBindError
    \/ TaskAccept
    \/ TaskAcceptError
    \/ TunnelFinished

\* the combined system is explored with the rows of inactive forwards shown,
\* so that the selection moves over them too
InitCombined == Init /\ show_inactive_forwards

Spec == InitCombined /\ [][Next]_vars

(***************************************************************************)
(* update on its own: Model::new with the persisted forwards, then update  *)
(* applied to any sequence of messages, the returned commands queued for a *)
(* receiver that takes them.                                               *)
(***************************************************************************)
UpdateScans == {[hostname |-> h, ports |-> ps] : h \in Hostnames, ps \in UpdatePortLists}

UpdateMessages ==
    {MsgScanReceived(scan) : scan \in UpdateScans}
    \cup {MsgDiscoveryWarning([kind |-> "agent_error"]),
          MsgDiscoveryError([kind |-> "Parse"]), MsgStreamEnded, MsgTick}
    \cup {MsgKey(key) : key \in Keys}
    \cup {MsgForwardEvent(EvStarted(rp, lp)) : rp \in RemotePorts, lp \in LocalPorts}
    \cup {MsgForwardEvent(EvStopped(rp)) : rp \in RemotePorts}
    \cup {MsgForwardEvent(EvPaused(rp)) : rp \in RemotePorts}
    \cup {MsgForwardEvent(EvBindError(rp, BindFailure(rp))) : rp \in RemotePorts}
    \cup {MsgForwardEvent(EvConnectionCountChanged(rp, n)) :
            rp \in RemotePorts, n \in 0..MaxConn}

\* the receiver has taken the commands of the update before
UpdateAny ==
    /\ running /\ ~exited /\ cmdq = <<>>
    /\ \E msg \in UpdateMessages : Update(msg)
    /\ exited' = ~running'
    /\ iterations' = 1 - iterations
    /\ UNCHANGED <<show_inactive_forwards, bgq, disc_done, consecutive_timeouts,
                   timeouts_in_a_row, listeners, paused_on, tasks, deploy, auth,
                   call, agent, store,
                   conn_log, notifier, account, held_open>>

CommandsTaken ==
    /\ ~exited
    /\ cmdq # <<>>
    /\ cmdq' = <<>>
    /\ UNCHANGED <<hostname, ports, selected_index, connection_state, last_scan_at,
                   running, forwards, modal, show_inactive_forwards, saved, bgq,
                   exited, iterations, disc_done, consecutive_timeouts, timeouts_in_a_row,
                   listeners, paused_on, tasks, deploy, auth,
                   call, agent, store,
                   conn_log, notifier, account, held_open>>

NextUpdate ==
    \/ UpdateAny
    \/ CommandsTaken
    \/ Advance

SpecUpdate == Init /\ [][NextUpdate]_vars

(***************************************************************************)
(* update on its own with the keys of the port input: one remote port, the *)
(* digits 0 and 9 typed into the buffer                                    *)
(***************************************************************************)
PortInputKeys ==
    {Char("0"), Char("9"), KeyEnter, KeyShiftEnter, KeyEsc, KeyBackspace, Char("F"),
     Char("f"), Char("x")}

PortInputMessages ==
    {MsgKey(key) : key \in PortInputKeys}
    \cup {MsgScanReceived([hostname |-> "h", ports |-> <<LP(Tcp, "a", 1, NoneOpt)>>])}
    \cup {MsgForwardEvent(EvStarted(1, lp)) : lp \in LocalPorts}
    \cup {MsgForwardEvent(EvStopped(1)),
          MsgForwardEvent(EvBindError(1, BindFailure(1)))}

\* the receiver has taken the commands of the update before
UpdatePortInput ==
    /\ running /\ ~exited /\ cmdq = <<>>
    /\ \E msg \in PortInputMessages : Update(msg)
    /\ exited' = ~running'
    /\ iterations' = 1 - iterations
    /\ UNCHANGED <<show_inactive_forwards, bgq, disc_done, consecutive_timeouts,
                   timeouts_in_a_row, listeners, paused_on, tasks, deploy, auth,
                   call, agent, store,
                   conn_log, notifier, account, held_open>>

NextPortInput ==
    \/ UpdatePortInput
    \/ CommandsTaken

SpecPortInput == Init /\ [][NextPortInput]_vars

(***************************************************************************)
(* The discovery stream with every kind of read, the discovery loop and    *)
(* the main loop; the commands are queued for a receiver that takes them.  *)
(***************************************************************************)
DiscoveryLoopAllReads == DiscoveryTurn(ReadKinds)

NextDiscovery ==
    \/ DiscoveryLoopAllReads
    \/ MainLoopBg
    \/ MainLoopKey
    \/ KeyboardClosed
    \/ TickThread
    \/ CommandsTaken

SpecDiscovery == Init /\ [][NextDiscovery]_vars

(***************************************************************************)
(* The forward manager on its own: any sequence of commands on its queue,  *)
(* its listener tasks, and a receiver that takes the events.               *)
(***************************************************************************)
\* the local ports the commands ask for: 0, for which the kernel chooses an
\* ephemeral port, and a fixed port
RequestedPorts == {0, 1}

AnyCommands ==
    {Start(rp, lp, h) : rp \in RemotePorts, lp \in RequestedPorts, h \in Hostnames}
    \cup {Reactivate(rp, lp, h) : rp \in RemotePorts, lp \in RequestedPorts, h \in Hostnames}
    \cup {Stop(rp) : rp \in RemotePorts}
    \cup {Pause(rp) : rp \in RemotePorts}

\* the manager has received the commands queued before
CommandQueued ==
    /\ ~exited /\ cmdq = <<>>
    /\ \E cmd \in AnyCommands : Emit(<<cmd>>)
    /\ UNCHANGED <<hostname, ports, selected_index, connection_state, last_scan_at,
                   running, forwards, modal, show_inactive_forwards, saved, bgq,
                   exited, iterations, disc_done, consecutive_timeouts, timeouts_in_a_row,
                   listeners, paused_on, tasks, deploy, auth,
                   call, agent, store,
                   conn_log, notifier, account, held_open>>

EventTaken ==
    /\ ~exited
    /\ bgq # <<>>
    /\ bgq' = Tail(bgq)
    /\ UNCHANGED <<hostname, ports, selected_index, connection_state, last_scan_at,
                   running, forwards, modal, show_inactive_forwards, saved, cmdq,
                   exited, iterations, disc_done, consecutive_timeouts, timeouts_in_a_row,
                   listeners, paused_on, tasks, deploy, auth,
                   call, agent, store,
                   conn_log, notifier, account, held_open>>

NextForward ==
    \/ CommandQueued
    \/ ForwardManagerRunRecorded
    \/ TaskBind
    \/ TaskBindError
    \/ TaskAccept
    \/ TaskAcceptError
    \/ TunnelFinished
    \/ EventTaken

\* nothing persisted: the model and its view play no part here
InitForward == Init /\ saved = {} /\ ~show_inactive_forwards

SpecForward == InitForward /\ [][NextForward]_vars

(***************************************************************************)
(* The forward manager and the main loop that processes its events: any    *)
(* sequence of commands for the remote port of the persisted forward, the  *)
(* listener tasks, and update applied to the events in the order sent.     *)
(***************************************************************************)
PersistedPortCommands ==
    {cmd \in AnyCommands :
        \E pf \in UNION PersistedAtStart : cmd.remote_port = pf.remote_port}

PersistedPortCommandQueued ==
    /\ ~exited /\ cmdq = <<>>
    /\ \E cmd \in PersistedPortCommands : Emit(<<cmd>>)
    /\ UNCHANGED <<hostname, ports, selected_index, connection_state, last_scan_at,
                   running, forwards, modal, show_inactive_forwards, saved, bgq,
                   exited, iterations, disc_done, consecutive_timeouts, timeouts_in_a_row,
                   listeners, paused_on, tasks, deploy, auth,
                   call, agent, store,
                   conn_log, notifier, account, held_open>>

NextEvents ==
    \/ PersistedPortCommandQueued
    \/ ForwardManagerRun
    \/ TaskBind
    \/ TaskBindError
    \/ TaskAccept
    \/ TaskAcceptError
    \/ TunnelFinished
    \/ MainLoopBg

InitEvents == Init /\ ~show_inactive_forwards

SpecEvents == InitEvents /\ [][NextEvents]_vars

(***************************************************************************)
(* The accept loop of a listener task with its history: the connections    *)
(* accepted, the tunnel tasks finished and the counts sent, for each        *)
(* listener task since it was spawned. The tunnel tasks of a listener that  *)
(* run are the ones of its JoinSet: those accepted and not finished.        *)
(***************************************************************************)
\* A u32 is written as the integer its 32 bits give when read as a signed
\* number, since the integers of the checker are 32 bits wide: 0 to 2^31 - 1
\* are themselves and 2^32 - k is -k. Addition and subtraction that wrap
\* around are then those of the integers, for the small values met here, and
\* a negative number is a counter that went below 0 and wrapped.
\* AtomicU32::fetch_add and fetch_sub: the previous value is returned and the
\* new one wraps around
FetchAdd(v, n) == [previous |-> v, stored |-> v + n]
FetchSub(v, n) == [previous |-> v, stored |-> v - n]

\* conn_count.fetch_add(1, Relaxed) + 1
AcceptedCount(conn_count) == FetchAdd(conn_count, 1).previous + 1

\* a faulty tunnel task: the value fetch_sub returns is sent as it is
FinishedCountPrevious(conn_count) == FetchSub(conn_count, 1).previous

\* conn_count.fetch_sub(1, Relaxed) - 1
FinishedCount(conn_count) == FetchSub(conn_count, 1).previous - 1

EmptyLog == [accepted |-> 0, finished |-> 0, counts |-> <<>>]
LogOf(id) == IF id \in DOMAIN conn_log THEN conn_log[id] ELSE EmptyLog
Logged(id, log) ==
    [i \in DOMAIN conn_log \cup {id} |-> IF i = id THEN log ELSE conn_log[i]]

\* the tunnel tasks of the listener's JoinSet that have not finished
RunningTunnels(id) == LogOf(id).accepted - LogOf(id).finished

\* ForwardManager::run, one command: a task it spawns begins with no history
ForwardManagerRunLogged ==
    /\ ~exited
    /\ cmdq # <<>>
    /\ HandleCommand(Head(cmdq))
    /\ cmdq' = Tail(cmdq)
    /\ conn_log' = [id \in DOMAIN tasks' |->
                      IF tasks'[id].state = "spawned" THEN EmptyLog ELSE LogOf(id)]
    /\ UNCHANGED <<hostname, ports, selected_index, connection_state,
                   last_scan_at, running, forwards, modal,
                   show_inactive_forwards, saved, exited, iterations,
                   disc_done, consecutive_timeouts, timeouts_in_a_row,
                   paused_on, deploy, auth, call, agent, store, notifier,
                   account, held_open>>

\* accept returns a connection: the counter goes up, the event is sent and a
\* tunnel task is spawned on the JoinSet
TaskAcceptLogged ==
    /\ ~exited
    /\ \E id \in DOMAIN tasks :
         /\ tasks[id].state = "listening"
         /\ LogOf(id).accepted < MaxAccepted
         /\ LET count == AcceptedCount(tasks[id].conns)
            IN /\ tasks' = [tasks EXCEPT ![id].conns = FetchAdd(@, 1).stored]
               /\ SendEvent(EvConnectionCountChanged(tasks[id].remote_port, count))
               /\ conn_log' = Logged(id, [LogOf(id) EXCEPT !.accepted = @ + 1,
                                                          !.counts = Append(@, count)])
    /\ UNCHANGED <<hostname, ports, selected_index, connection_state,
                   last_scan_at, running, forwards, modal,
                   show_inactive_forwards, saved, cmdq, exited, iterations,
                   disc_done, consecutive_timeouts, timeouts_in_a_row,
                   listeners, paused_on, deploy, auth, call, agent, store,
                   notifier, account, held_open>>

\* a tunnel task of the JoinSet finishes: the counter goes down and the
\* event is sent
TunnelFinishedLogged ==
    /\ ~exited
    /\ \E id \in DOMAIN tasks :
         /\ tasks[id].state = "listening"
         /\ RunningTunnels(id) > 0
         /\ LET count == FinishedCount(tasks[id].conns)
            IN /\ tasks' = [tasks EXCEPT ![id].conns = FetchSub(@, 1).stored]
               /\ SendEvent(EvConnectionCountChanged(tasks[id].remote_port, count))
               /\ conn_log' = Logged(id, [LogOf(id) EXCEPT !.finished = @ + 1,
                                                          !.counts = Append(@, count)])
    /\ UNCHANGED <<hostname, ports, selected_index, connection_state,
                   last_scan_at, running, forwards, modal,
                   show_inactive_forwards, saved, cmdq, exited, iterations,
                   disc_done, consecutive_timeouts, timeouts_in_a_row,
                   listeners, paused_on, deploy, auth, call, agent, store,
                   notifier, account, held_open>>

NextTunnels ==
    \/ PersistedPortCommandQueued
    \/ ForwardManagerRunLogged
    \/ TaskBind
    \/ TaskBindError
    \/ TaskAcceptLogged
    \/ TaskAcceptError
    \/ TunnelFinishedLogged
    \/ EventTaken

SpecTunnels == InitForward /\ [][NextTunnels]_vars

(***************************************************************************)
(* The reactivation of a paused forward, with fairness: the remote host,   *)
(* the discovery loop, the main loop, the forward manager and the listener *)
(* tasks. No key is pressed, the agent's stream neither ends nor fails,    *)
(* bind succeeds and accept returns no error. A remote port can begin to   *)
(* listen for good: every scan written after that lists it.                *)
(***************************************************************************)
\* the ports a line of the agent can list
ScannedPorts == UNION {PortSet(ps) : ps \in ScanPortLists}

\* a process of the remote host binds the port and keeps it
RemoteHoldsOpen ==
    /\ \E p \in ScannedPorts :
         /\ p \notin held_open
         /\ held_open' = held_open \cup {p}
    /\ UNCHANGED <<hostname, ports, selected_index, connection_state,
                   last_scan_at, running, forwards, modal,
                   show_inactive_forwards, saved, bgq, cmdq, exited,
                   iterations, disc_done, consecutive_timeouts,
                   timeouts_in_a_row, listeners, tasks, paused_on, deploy,
                   auth, call, agent, store, conn_log, notifier, account>>

\* one turn of the discovery loop: a scan line of the agent is read and sent.
\* The agent writes a scan every two seconds, which the main loop takes
\* before the next one is written, and far fewer commands wait for the
\* manager than its channel holds; the channels are unbounded and send never
\* blocks.
DiscoveryScanOfRemote ==
    /\ ~exited /\ ~disc_done
    /\ Len(bgq) < MaxBg
    /\ Len(cmdq) < MaxCmd
    /\ \A i \in 1..Len(bgq) : bgq[i].type # "ScanReceived"
    /\ \E read \in ReadOutcomes({"ok_line"}) :
         /\ held_open \subseteq PortSet(read.ports)
         /\ consecutive_timeouts' = TimeoutsAfter(consecutive_timeouts, read)
         /\ bgq' = Append(bgq, DiscoveryMessage(NextEvent(consecutive_timeouts, read)))
    /\ UNCHANGED <<hostname, ports, selected_index, connection_state,
                   last_scan_at, running, forwards, modal,
                   show_inactive_forwards, saved, cmdq, exited, iterations,
                   disc_done, timeouts_in_a_row, listeners, tasks,
                   paused_on, deploy, auth, call, agent, store, conn_log,
                   notifier, account, held_open>>

NextReactivation ==
    \/ RemoteHoldsOpen
    \/ DiscoveryScanOfRemote
    \/ MainLoopBg
    \/ ForwardManagerRun
    \/ TaskBind
    \/ TaskAccept
    \/ TunnelFinished

\* the main loop takes every message, the manager every command, a spawned
\* task is polled, and the agent goes on writing scans; a send is possible
\* again and again (in the program, always)
FairReactivation ==
    /\ SF_vars(MainLoopBg)
    /\ SF_vars(ForwardManagerRun)
    /\ SF_vars(TaskBind)
    /\ SF_vars(DiscoveryScanOfRemote)

SpecReactivation == InitCombined /\ [][NextReactivation]_vars /\ FairReactivation

(***************************************************************************)
(* ssh/agent.rs: AgentManager. Text is a sequence of one-character         *)
(* strings, so that trimming, splitting and parsing are computed as the    *)
(* code computes them. A reply is what Session::exec returned for one      *)
(* command: an error, or the output with its success flag.                 *)
(***************************************************************************)
Whitespace == {" ", "\n", "\t"}

RECURSIVE TrimStart(_)
TrimStart(s) ==
    IF s # <<>> /\ Head(s) \in Whitespace THEN TrimStart(Tail(s)) ELSE s

RECURSIVE TrimEnd(_)
TrimEnd(s) ==
    IF s # <<>> /\ s[Len(s)] \in Whitespace THEN TrimEnd(SubSeq(s, 1, Len(s) - 1))
    ELSE s

\* str::trim
Trim(s) == TrimEnd(TrimStart(s))

\* str::split_whitespace, collected
RECURSIVE SplitWhitespace(_)
SplitWhitespace(s) ==
    LET t == TrimStart(s)
        stops == {i \in 1..Len(t) : t[i] \in Whitespace}
        n == IF stops = {} THEN Len(t) + 1
             ELSE CHOOSE i \in stops : \A j \in stops : i <= j
    IN IF t = <<>> THEN <<>>
       ELSE <<SubSeq(t, 1, n - 1)>> \o SplitWhitespace(SubSeq(t, n, Len(t)))

UpperLetters == <<"A", "B", "C", "D", "E", "F", "G", "H", "I", "J", "K", "L", "M", "N", "O", "P", "Q", "R", "S", "T", "U", "V", "W", "X", "Y", "Z">>
LowerLetters == <<"a", "b", "c", "d", "e", "f", "g", "h", "i", "j", "k", "l", "m", "n", "o", "p", "q", "r", "s", "t", "u", "v", "w", "x", "y", "z">>

\* str::to_lowercase, on ASCII
ToLowercase(s) ==
    [i \in DOMAIN s |->
        IF \E k \in DOMAIN UpperLetters : UpperLetters[k] = s[i]
        THEN LowerLetters[CHOOSE k \in DOMAIN UpperLetters : UpperLetters[k] = s[i]]
        ELSE s[i]]

REMOTE_AGENT_DIR == <<".", "s", "s", "h", "f", "w", "d">>
REMOTE_AGENT_NAME == <<"s", "s", "h", "f", "w", "d", "-", "a", "g", "e", "n", "t">>
REMOTE_PID_FILE == <<".", "s", "s", "h", "f", "w", "d", "/", "a", "g", "e", "n", "t", ".", "p", "i", "d">>

ExecError == [kind |-> "error", success |-> FALSE, stdout |-> <<>>]
Output(success, stdout) == [kind |-> "output", success |-> success, stdout |-> stdout]

Ok(v) == [ok |-> TRUE, value |-> v]
Err(e) == [ok |-> FALSE, value |-> e]

\* the commands issued on the session
Exec(cmd, arg) == [cmd |-> cmd, arg |-> arg]

normalize_os(raw) ==
    IF raw = <<"L", "i", "n", "u", "x">> THEN <<"l", "i", "n", "u", "x">>
    ELSE IF raw = <<"D", "a", "r", "w", "i", "n">> THEN <<"d", "a", "r", "w", "i", "n">>
    ELSE ToLowercase(raw)

normalize_arch(raw) ==
    IF raw \in {<<"a", "r", "m", "6", "4">>, <<"a", "a", "r", "c", "h", "6", "4">>} THEN <<"a", "a", "r", "c", "h", "6", "4">>
    ELSE IF raw \in {<<"x", "8", "6", "_", "6", "4">>, <<"a", "m", "d", "6", "4">>} THEN <<"x", "8", "6", "_", "6", "4">>
    ELSE ToLowercase(raw)

Platform(os, arch) == [os |-> os, arch |-> arch]

\* detect_platform, on the reply to uname -sm; the success flag is not read
detect_platform(reply) ==
    LET parts == SplitWhitespace(Trim(reply.stdout))
    IN IF reply.kind = "error" THEN Err("Remote")
       ELSE IF Len(parts) = 0 THEN Err("AgentDeploy: could not detect remote OS")
       ELSE IF Len(parts) = 1
            THEN Err("AgentDeploy: could not detect remote architecture")
       ELSE Ok(Platform(normalize_os(parts[1]), normalize_arch(parts[2])))

\* the replies to uname -sm
UnameReplies ==
    {ExecError, Output(TRUE, <<>>), Output(TRUE, <<"L", "i", "n", "u", "x", "\n">>),
     Output(TRUE, <<"L", "i", "n", "u", "x", " ", "x", "8", "6", "_", "6", "4", "\n">>), Output(FALSE, <<"D", "a", "r", "w", "i", "n", " ", "a", "r", "m", "6", "4", "\n">>)}

\* remote_dir and remote_path of deploy_and_spawn
RemoteDir(platform) == REMOTE_AGENT_DIR \o <<"/">> \o platform.arch
RemotePath(platform) == RemoteDir(platform) \o <<"/">> \o REMOTE_AGENT_NAME

\* the agent binaries that can be deployed, and the ones a remote file can hold
Binaries == {"agent-a", "agent-b"}

\* a local file read: its bytes, or the I/O error
ReadResults == {Ok(b) : b \in Binaries} \cup {Err("LocalIo")}

\* what resolve_agent_binary finds: the file of --agent-path if the option is
\* given, the binary embedded for the platform if there is one, and the file
\* under prebuilt-agents/ if it exists
LocalFiles ==
    [local_override : {NoneOpt} \cup {Some(r) : r \in ReadResults},
     embedded : {NoneOpt} \cup {Some(b) : b \in Binaries},
     prebuilt : {NoneOpt} \cup {Some(r) : r \in ReadResults}]

resolve_agent_binary(local) ==
    IF local.local_override # NoneOpt THEN The(local.local_override)
    ELSE IF local.embedded # NoneOpt THEN Ok(The(local.embedded))
    ELSE IF local.prebuilt # NoneOpt THEN The(local.prebuilt)
    ELSE Err("AgentDeploy: no agent binary available")

\* Sha256::finalize: the digest, 32 bytes; the function itself is not
\* computed, the two binaries have different digests
Sha256(data) == [i \in 1..32 |-> IF data = "agent-a" THEN 170 ELSE 27]

HexChars == <<"0", "1", "2", "3", "4", "5", "6", "7", "8", "9", "a", "b", "c", "d", "e", "f">>

\* hex_encode: two lower-case digits for each byte
RECURSIVE hex_encode(_)
hex_encode(bytes) ==
    IF bytes = <<>> THEN <<>>
    ELSE <<HexChars[(Head(bytes) \div 16) + 1], HexChars[(Head(bytes) % 16) + 1]>>
         \o hex_encode(Tail(bytes))

sha256_hex(data) == hex_encode(Sha256(data))

\* char::is_ascii_hexdigit
HexDigits == {HexChars[i] : i \in DOMAIN HexChars} \cup {"A", "B", "C", "D", "E", "F"}

\* the test of remote_hash on a token of the output
IsHashToken(s) == Len(s) = 64 /\ \A i \in 1..Len(s) : s[i] \in HexDigits

\* remote_hash, on the reply to the hash command
remote_hash(reply) ==
    LET tokens == SplitWhitespace(reply.stdout)
        hits == {i \in 1..Len(tokens) : IsHashToken(tokens[i])}
    IN IF reply.kind = "error" THEN Err("Remote")
       ELSE IF ~reply.success THEN Err("AgentDeploy: remote agent not found")
       ELSE IF hits = {} THEN Err("AgentDeploy: could not parse remote hash")
       ELSE Ok(tokens[CHOOSE i \in hits : \A j \in hits : i <= j])

\* a faulty needs_upload: a hash that cannot be read asks for no upload
NeedsUploadWhenRead(reply, local_hash) ==
    LET remote == remote_hash(reply)
    IN IF remote.ok THEN remote.value # local_hash ELSE FALSE

\* needs_upload of deploy_and_spawn
NeedsUpload(reply, local_hash) ==
    LET remote == remote_hash(reply)
    IN IF remote.ok THEN remote.value # local_hash ELSE TRUE

\* the replies to the hash command: the line of sha256sum, the line of openssl,
\* a line with the digits in upper case, which neither tool prints but the
\* test of remote_hash accepts, and output without a hash
HashReplies(remote_path) ==
    {ExecError,
     Output(FALSE, <<>>),
     Output(FALSE, sha256_hex("agent-a") \o <<" ", " ">> \o remote_path \o <<"\n">>),
     Output(TRUE, sha256_hex("agent-a") \o <<" ", " ">> \o remote_path \o <<"\n">>),
     Output(TRUE, sha256_hex("agent-b") \o <<" ", " ">> \o remote_path \o <<"\n">>),
     Output(TRUE, <<"S", "H", "A", "2", "5", "6", "(">> \o remote_path \o <<")", "=", " ">>
                  \o sha256_hex("agent-a") \o <<"\n">>),
     Output(TRUE, [i \in 1..64 |-> "A"] \o <<" ", " ">> \o remote_path \o <<"\n">>),
     Output(TRUE, [i \in 1..64 |-> "g"] \o <<" ", " ">> \o remote_path \o <<"\n">>),
     Output(TRUE, SubSeq(sha256_hex("agent-a"), 1, 63) \o <<"\n">>),
     Output(TRUE, <<>>)}

\* the replies to the commands whose output is not read
PlainReplies == {ExecError, Output(TRUE, <<>>), Output(FALSE, <<>>)}

\* upload: the result, and how many of its three commands were issued
upload(mkdir, cat, mv) ==
    IF mkdir.kind = "error" THEN [result |-> Err("Remote"), issued |-> 1]
    ELSE IF cat.kind = "error" THEN [result |-> Err("Remote"), issued |-> 2]
    ELSE IF mv.kind = "error" THEN [result |-> Err("Remote"), issued |-> 3]
    ELSE IF ~mv.success
         THEN [result |-> Err("AgentDeploy: failed to install agent"), issued |-> 3]
    ELSE [result |-> Ok("installed"), issued |-> 3]

Digits == <<"0", "1", "2", "3", "4", "5", "6", "7", "8", "9">>
IsDigit(c) == \E i \in DOMAIN Digits : Digits[i] = c
DigitValue(c) == (CHOOSE i \in DOMAIN Digits : Digits[i] = c) - 1

RECURSIVE StripZeros(_)
StripZeros(s) == IF Len(s) > 1 /\ Head(s) = "0" THEN StripZeros(Tail(s)) ELSE s

\* u32::MAX, in decimal
U32_MAX_DIGITS == <<"4", "2", "9", "4", "9", "6", "7", "2", "9", "5">>

\* a <= b for two numbers in decimal with the same number of digits
DigitsLeq(a, b) ==
    \/ a = b
    \/ \E i \in 1..Len(a) :
          /\ \A j \in 1..(i - 1) : a[j] = b[j]
          /\ DigitValue(a[i]) < DigitValue(b[i])

\* str::parse::<u32>: an optional +, then one digit at least, and no overflow.
\* The value is given in decimal without leading zeros, which is how
\* format! writes it.
ParseU32(s) ==
    LET body == IF s # <<>> /\ Head(s) = "+" THEN Tail(s) ELSE s
        n == StripZeros(body)
    IN IF body = <<>> \/ \E i \in 1..Len(body) : ~IsDigit(body[i]) THEN NoneOpt
       ELSE IF Len(n) > Len(U32_MAX_DIGITS) THEN NoneOpt
       ELSE IF Len(n) = Len(U32_MAX_DIGITS) /\ ~DigitsLeq(n, U32_MAX_DIGITS) THEN NoneOpt
       ELSE Some(n)

\* a faulty kill_stale_agent: the command name is not verified
kill_stale_agent_unverified(pid_reply, comm_reply) ==
    LET pid_str == Trim(pid_reply.stdout)
        pid == ParseU32(pid_str)
        read == <<Exec("cat", REMOTE_PID_FILE)>>
    IN IF pid_reply.kind = "error" \/ ~pid_reply.success THEN read
       ELSE IF pid = NoneOpt THEN read
       ELSE read \o <<Exec("comm", The(pid)), Exec("kill", pid_str)>>

\* kill_stale_agent: the commands it issues
kill_stale_agent(pid_reply, comm_reply) ==
    LET pid_str == Trim(pid_reply.stdout)
        pid == ParseU32(pid_str)
        read == <<Exec("cat", REMOTE_PID_FILE)>>
    IN IF pid_reply.kind = "error" \/ ~pid_reply.success THEN read
       ELSE IF pid = NoneOpt THEN read
       ELSE IF comm_reply.kind = "error" THEN read \o <<Exec("comm", The(pid))>>
       ELSE IF Trim(comm_reply.stdout) = REMOTE_AGENT_NAME
            THEN read \o <<Exec("comm", The(pid)), Exec("kill", pid_str)>>
       ELSE read \o <<Exec("comm", The(pid))>>

\* the replies to cat .sshfwd/agent.pid
PidReplies ==
    {ExecError, Output(FALSE, <<>>), Output(FALSE, <<"1", "2", "3", "\n">>),
     Output(TRUE, <<"1", "2", "3", "\n">>), Output(TRUE, <<>>), Output(TRUE, <<"1", "2", "x", "\n">>),
     Output(TRUE, <<"-", "1", "2", "\n">>), Output(TRUE, <<"+", "1", "2", "\n">>), Output(TRUE, <<" ", "0", "0", "7", " ", "\n">>),
     Output(TRUE, <<"4", "2", "9", "4", "9", "6", "7", "2", "9", "5", "\n">>), Output(TRUE, <<"4", "2", "9", "4", "9", "6", "7", "2", "9", "6", "\n">>)}

\* the replies to the command that reads the command name of the pid
CommReplies ==
    {ExecError, Output(TRUE, <<"s", "s", "h", "f", "w", "d", "-", "a", "g", "e", "n", "t", "\n">>), Output(FALSE, <<"s", "s", "h", "f", "w", "d", "-", "a", "g", "e", "n", "t", "\n">>),
     Output(TRUE, <<"b", "a", "s", "h", "\n">>), Output(TRUE, <<"s", "s", "h", "f", "w", "d", "-", "a", "g", "e", "n", "t", "-", "o", "l", "d", "\n">>), Output(FALSE, <<>>)}

\* spawn_agent, on what exec_streaming returns
SpawnReplies == {Err("Remote"), Ok("stream")}

(***************************************************************************)
(* deploy_and_spawn, one action for each function it calls                 *)
(***************************************************************************)
Called(d, fn, execs) == [d EXCEPT !.trace = Append(@, fn), !.execs = @ \o execs]
\* a faulty return: the result is kept but deploy_and_spawn goes on
ReturnAndGoOn(d, r) == [d EXCEPT !.result = Some(r)]

\* the ? operator, and the value of the last expression
Return(d, r) == [d EXCEPT !.pc = "returned", !.result = Some(r)]

DeployDetectPlatform(reply) ==
    /\ deploy.pc = "detect_platform"
    /\ LET r == detect_platform(reply)
           d == Called(deploy, "detect_platform", <<Exec("uname -sm", <<>>)>>)
       IN deploy' = IF r.ok
                    THEN [d EXCEPT !.pc = "resolve_agent_binary",
                                   !.platform = Some(r.value)]
                    ELSE Return(d, r)
    /\ UNCHANGED <<hostname, ports, selected_index, connection_state, last_scan_at,
                   running, forwards, modal, show_inactive_forwards, saved, bgq, cmdq,
                   exited, iterations, disc_done, consecutive_timeouts,
                   timeouts_in_a_row, listeners, tasks, paused_on, auth,
                   call, agent, store,
                   conn_log, notifier, account, held_open>>

DeployResolveAgentBinary(local) ==
    /\ deploy.pc = "resolve_agent_binary"
    /\ LET r == resolve_agent_binary(local)
           d == Called(deploy, "resolve_agent_binary", <<>>)
       IN deploy' = IF r.ok
                    THEN [d EXCEPT !.pc = "remote_hash", !.agent_bytes = Some(r.value)]
                    ELSE Return(d, r)
    /\ UNCHANGED <<hostname, ports, selected_index, connection_state, last_scan_at,
                   running, forwards, modal, show_inactive_forwards, saved, bgq, cmdq,
                   exited, iterations, disc_done, consecutive_timeouts,
                   timeouts_in_a_row, listeners, tasks, paused_on, auth,
                   call, agent, store,
                   conn_log, notifier, account, held_open>>

DeployRemoteHash(reply) ==
    /\ deploy.pc = "remote_hash"
    /\ LET remote_path == RemotePath(The(deploy.platform))
           needs_upload == NeedsUpload(reply, sha256_hex(The(deploy.agent_bytes)))
           d == Called(deploy, "remote_hash", <<Exec("sha256sum || openssl", remote_path)>>)
       IN deploy' = [d EXCEPT !.needs_upload = needs_upload,
                              !.pc = IF needs_upload THEN "upload"
                                     ELSE "kill_stale_agent"]
    /\ UNCHANGED <<hostname, ports, selected_index, connection_state, last_scan_at,
                   running, forwards, modal, show_inactive_forwards, saved, bgq, cmdq,
                   exited, iterations, disc_done, consecutive_timeouts,
                   timeouts_in_a_row, listeners, tasks, paused_on, auth,
                   call, agent, store,
                   conn_log, notifier, account, held_open>>

DeployUpload(mkdir, cat, mv) ==
    /\ deploy.pc = "upload"
    /\ LET r == upload(mkdir, cat, mv)
           platform == The(deploy.platform)
           cmds == <<Exec("mkdir -p", RemoteDir(platform)),
                     Exec("cat >", RemotePath(platform) \o <<".", "t", "m", "p">>),
                     Exec("mv && chmod +x", RemotePath(platform))>>
           d == Called(deploy, "upload", SubSeq(cmds, 1, r.issued))
       IN deploy' = IF r.result.ok THEN [d EXCEPT !.pc = "kill_stale_agent"]
                    ELSE Return(d, r.result)
    /\ UNCHANGED <<hostname, ports, selected_index, connection_state, last_scan_at,
                   running, forwards, modal, show_inactive_forwards, saved, bgq, cmdq,
                   exited, iterations, disc_done, consecutive_timeouts,
                   timeouts_in_a_row, listeners, tasks, paused_on, auth,
                   call, agent, store,
                   conn_log, notifier, account, held_open>>

DeployKillStaleAgent(pid_reply, comm_reply) ==
    /\ deploy.pc = "kill_stale_agent"
    /\ deploy' = [Called(deploy, "kill_stale_agent",
                         kill_stale_agent(pid_reply, comm_reply))
                    EXCEPT !.pc = "spawn_agent"]
    /\ UNCHANGED <<hostname, ports, selected_index, connection_state, last_scan_at,
                   running, forwards, modal, show_inactive_forwards, saved, bgq, cmdq,
                   exited, iterations, disc_done, consecutive_timeouts,
                   timeouts_in_a_row, listeners, tasks, paused_on, auth,
                   call, agent, store,
                   conn_log, notifier, account, held_open>>

DeploySpawnAgent(reply) ==
    /\ deploy.pc = "spawn_agent"
    /\ deploy' = Return(Called(deploy, "spawn_agent",
                               <<Exec("agent", RemotePath(The(deploy.platform)))>>),
                        reply)
    /\ UNCHANGED <<hostname, ports, selected_index, connection_state, last_scan_at,
                   running, forwards, modal, show_inactive_forwards, saved, bgq, cmdq,
                   exited, iterations, disc_done, consecutive_timeouts,
                   timeouts_in_a_row, listeners, tasks, paused_on, auth,
                   call, agent, store,
                   conn_log, notifier, account, held_open>>

NextDeploy ==
    \/ \E reply \in UnameReplies : DeployDetectPlatform(reply)
    \/ \E local \in LocalFiles : DeployResolveAgentBinary(local)
    \/ /\ deploy.pc = "remote_hash"
       /\ \E reply \in HashReplies(RemotePath(The(deploy.platform))) :
             DeployRemoteHash(reply)
    \/ \E mkdir \in PlainReplies, cat \in PlainReplies, mv \in PlainReplies :
          DeployUpload(mkdir, cat, mv)
    \/ \E pid_reply \in PidReplies, comm_reply \in CommReplies :
          DeployKillStaleAgent(pid_reply, comm_reply)
    \/ \E reply \in SpawnReplies : DeploySpawnAgent(reply)

\* the session is connected; nothing is persisted and nothing else runs
InitDeploy == Init /\ saved = {} /\ ~show_inactive_forwards

SpecDeploy == InitDeploy /\ [][NextDeploy]_vars

(***************************************************************************)
(* ssh/session.rs: authenticate, and the end of Session::connect. One      *)
(* action for the call, and one for each method tried.                     *)
(***************************************************************************)
\* a key offered by the ssh-agent, and a key file
AgentKey(k) == [method |-> "agent", key |-> k]
KeyFile(path) == [method |-> "file", key |-> path]

\* the identities the ssh-agent lists; none when there is no agent or the
\* request fails
AgentIdentities == {<<>>, <<"agent-1">>, <<"agent-1", "agent-2">>}

\* the IdentityFile directives of the host
IdentityFileLists ==
    {<<>>, <<"~/.ssh/work">>, <<"~/.ssh/work", "~/.ssh/id_rsa">>,
     <<"~/.ssh/id_rsa", "~/.ssh/work">>}

\* default_keys of authenticate
DefaultKeys == <<"~/.ssh/id_ed25519", "~/.ssh/id_rsa", "~/.ssh/id_ecdsa">>

\* what the server answers to a key: success, failure, or the request fails
KeyOutcomes == {"success", "failure", "error"}

\* what try_key_file finds: no file, a file that does not load, or a key and
\* the server's answer to it
FileOutcomes == {"missing", "unloadable"} \cup KeyOutcomes

\* authenticate goes on to the next group while the one it is in has no
\* method left; after the default keys it returns false, and Session::connect
\* returns the Auth error
RECURSIVE Settle(_)
Settle(a) ==
    IF a.queue # <<>> THEN a
    ELSE IF a.pc = "agent"
         THEN Settle([a EXCEPT !.pc = "identity_files",
                               !.queue = [i \in DOMAIN a.identity_files |->
                                            KeyFile(a.identity_files[i])]])
    ELSE IF a.pc = "identity_files"
         THEN Settle([a EXCEPT !.pc = "default_keys",
                               !.queue = [i \in DOMAIN DefaultKeys |->
                                            KeyFile(DefaultKeys[i])]])
    ELSE [a EXCEPT !.pc = "returned", !.result = Some(Err("Auth"))]

\* a faulty loop: a method that succeeds does not end authenticate
TriedGoesOn(a, outcome) ==
    Settle([a EXCEPT !.attempts = Append(@, Head(a.queue)),
                     !.requests = IF outcome \in KeyOutcomes
                                  THEN Append(@, Head(a.queue)) ELSE @,
                     !.queue = Tail(@)])

\* one method tried: the key, if there is one, is sent to the server;
\* authenticate returns true on success, and goes on to the next method
\* otherwise
Tried(a, outcome) ==
    LET b == [a EXCEPT !.attempts = Append(@, Head(a.queue)),
                       !.requests = IF outcome \in KeyOutcomes
                                    THEN Append(@, Head(a.queue)) ELSE @,
                       !.queue = Tail(@)]
    IN IF outcome = "success"
       THEN [b EXCEPT !.pc = "returned", !.result = Some(Ok("session"))]
       ELSE Settle(b)

\* Session::connect calls authenticate, which asks the ssh-agent for its keys
AuthCall(identities, identity_files) ==
    /\ auth.pc = "connect"
    /\ auth' = Settle([auth EXCEPT !.pc = "agent",
                                   !.identities = identities,
                                   !.identity_files = identity_files,
                                   !.queue = [i \in DOMAIN identities |->
                                                AgentKey(identities[i])]])
    /\ UNCHANGED <<hostname, ports, selected_index, connection_state, last_scan_at,
                   running, forwards, modal, show_inactive_forwards, saved, bgq, cmdq,
                   exited, iterations, disc_done, consecutive_timeouts,
                   timeouts_in_a_row, listeners, tasks, paused_on, deploy,
                   call, agent, store,
                   conn_log, notifier, account, held_open>>

\* authenticate_publickey_with for the next key of the ssh-agent
AuthAgentKey(outcome) ==
    /\ auth.pc = "agent"
    /\ auth' = Tried(auth, outcome)
    /\ UNCHANGED <<hostname, ports, selected_index, connection_state, last_scan_at,
                   running, forwards, modal, show_inactive_forwards, saved, bgq, cmdq,
                   exited, iterations, disc_done, consecutive_timeouts,
                   timeouts_in_a_row, listeners, tasks, paused_on, deploy,
                   call, agent, store,
                   conn_log, notifier, account, held_open>>

\* try_key_file for the next IdentityFile or default key
AuthKeyFile(outcome) ==
    /\ auth.pc \in {"identity_files", "default_keys"}
    /\ auth' = Tried(auth, outcome)
    /\ UNCHANGED <<hostname, ports, selected_index, connection_state, last_scan_at,
                   running, forwards, modal, show_inactive_forwards, saved, bgq, cmdq,
                   exited, iterations, disc_done, consecutive_timeouts,
                   timeouts_in_a_row, listeners, tasks, paused_on, deploy,
                   call, agent, store,
                   conn_log, notifier, account, held_open>>

NextAuth ==
    \/ \E identities \in AgentIdentities, identity_files \in IdentityFileLists :
          AuthCall(identities, identity_files)
    \/ \E outcome \in KeyOutcomes : AuthAgentKey(outcome)
    \/ \E outcome \in FileOutcomes : AuthKeyFile(outcome)

\* the connection to the server is made; nothing else runs yet
InitAuth == Init /\ saved = {} /\ ~show_inactive_forwards

SpecAuth == InitAuth /\ [][NextAuth]_vars

(***************************************************************************)
(* ssh/session.rs: parse_ssh_host_config on the text of ~/.ssh/config      *)
(***************************************************************************)
\* the longest configuration file read, in lines
MaxConfigLines == 4

\* the specifications of the functions that keep no state start here
InitCalls == Init /\ saved = {} /\ ~show_inactive_forwards

\* the index of the first element of s that is in set, or 0
FirstIn(s, set) ==
    IF \E i \in 1..Len(s) : s[i] \in set
    THEN CHOOSE i \in 1..Len(s) : s[i] \in set /\ \A j \in 1..(i - 1) : s[j] \notin set
    ELSE 0

\* str::lines, on a text without carriage returns
RECURSIVE Lines(_)
Lines(s) ==
    LET i == FirstIn(s, {"\n"})
    IN IF s = <<>> THEN <<>>
       ELSE IF i = 0 THEN <<s>>
       ELSE <<SubSeq(s, 1, i - 1)>> \o Lines(SubSeq(s, i + 1, Len(s)))

\* str::split_once on a set of characters
SplitOnce(s, set) ==
    LET i == FirstIn(s, set)
    IN IF i = 0 THEN NoneOpt
       ELSE Some(<<SubSeq(s, 1, i - 1), SubSeq(s, i + 1, Len(s))>>)

EqIgnoreAsciiCase(a, b) == ToLowercase(a) = ToLowercase(b)
StartsWith(s, p) == Len(p) <= Len(s) /\ SubSeq(s, 1, Len(p)) = p
EndsWith(s, p) == Len(p) <= Len(s) /\ SubSeq(s, Len(s) - Len(p) + 1, Len(s)) = p

\* str::parse::<u16>: an optional +, then one digit at least, and no overflow
ParseU16Text(s) ==
    LET body == IF s # <<>> /\ Head(s) = "+" THEN Tail(s) ELSE s
        n == StripZeros(body)
        value == DigitsValue([i \in 1..Len(n) |-> DigitValue(n[i])])
    IN IF body = <<>> \/ \E i \in 1..Len(body) : ~IsDigit(body[i]) THEN NoneOpt
       ELSE IF Len(n) > 5 THEN NoneOpt
       ELSE IF value > U16_MAX THEN NoneOpt
       ELSE Some(value)

host_pattern_matches(pattern, host) ==
    IF pattern = <<"*">> THEN TRUE
    ELSE IF EndsWith(pattern, <<"*">>)
         THEN StartsWith(host, SubSeq(pattern, 1, Len(pattern) - 1))
    ELSE IF StartsWith(pattern, <<"*">>)
         THEN EndsWith(host, Tail(pattern))
    ELSE pattern = host

SshHostConfig(hostname_, port, user, proxy_jump, identity_files) ==
    [hostname |-> hostname_, port |-> port, user |-> user, proxy_jump |-> proxy_jump,
     identity_files |-> identity_files]

\* the key and the value of a line, or nothing for a line that is skipped
Directive(line) ==
    LET trimmed == Trim(line)
        kv == SplitOnce(trimmed, Whitespace \cup {"="})
    IN IF trimmed = <<>> \/ Head(trimmed) = "#" THEN NoneOpt
       ELSE IF kv = NoneOpt THEN NoneOpt
       ELSE Some([key |-> Trim(The(kv)[1]), value |-> Trim(The(kv)[2])])

\* the Host line: does one of its patterns match
HostLineMatches(value, host) ==
    \E p \in Range(SplitWhitespace(value)) : host_pattern_matches(p, host)

\* the path of an IdentityFile directive
ExpandHome(value, home) ==
    IF StartsWith(value, <<"~", "/">>) THEN home \o <<"/">> \o SubSeq(value, 3, Len(value))
    ELSE value

\* a faulty body of the loop: a later HostName, User or Port replaces the
\* value found before
ApplyDirectiveLastWins(st, key, value, host, home) ==
    IF EqIgnoreAsciiCase(key, <<"H", "o", "s", "t">>)
    THEN [st EXCEPT !.in_matching_block = HostLineMatches(value, host)]
    ELSE IF EqIgnoreAsciiCase(key, <<"M", "a", "t", "c", "h">>)
    THEN [st EXCEPT !.in_matching_block = FALSE]
    ELSE IF ~st.in_matching_block THEN st
    ELSE IF EqIgnoreAsciiCase(key, <<"P", "r", "o", "x", "y", "J", "u", "m", "p">>) /\ ~st.seen_proxy_jump
    THEN [st EXCEPT !.seen_proxy_jump = TRUE,
                    !.cfg.proxy_jump = IF EqIgnoreAsciiCase(value, <<"n", "o", "n", "e">>) THEN @
                                       ELSE Some(value)]
    ELSE IF EqIgnoreAsciiCase(key, <<"H", "o", "s", "t", "N", "a", "m", "e">>)
    THEN [st EXCEPT !.cfg.hostname = Some(value)]
    ELSE IF EqIgnoreAsciiCase(key, <<"U", "s", "e", "r">>)
    THEN [st EXCEPT !.cfg.user = Some(value)]
    ELSE IF EqIgnoreAsciiCase(key, <<"P", "o", "r", "t">>)
    THEN [st EXCEPT !.cfg.port = ParseU16Text(value)]
    ELSE IF EqIgnoreAsciiCase(key, <<"I", "d", "e", "n", "t", "i", "t", "y", "F", "i", "l", "e">>)
    THEN [st EXCEPT !.cfg.identity_files = Append(@, ExpandHome(value, home))]
    ELSE st

\* the body of the loop over the lines, for a line that has a key and a value
ApplyDirective(st, key, value, host, home) ==
    IF EqIgnoreAsciiCase(key, <<"H", "o", "s", "t">>)
    THEN [st EXCEPT !.in_matching_block = HostLineMatches(value, host)]
    ELSE IF EqIgnoreAsciiCase(key, <<"M", "a", "t", "c", "h">>)
    THEN [st EXCEPT !.in_matching_block = FALSE]
    ELSE IF ~st.in_matching_block THEN st
    ELSE IF EqIgnoreAsciiCase(key, <<"P", "r", "o", "x", "y", "J", "u", "m", "p">>) /\ ~st.seen_proxy_jump
    THEN [st EXCEPT !.seen_proxy_jump = TRUE,
                    !.cfg.proxy_jump = IF EqIgnoreAsciiCase(value, <<"n", "o", "n", "e">>) THEN @
                                       ELSE Some(value)]
    ELSE IF EqIgnoreAsciiCase(key, <<"H", "o", "s", "t", "N", "a", "m", "e">>) /\ st.cfg.hostname = NoneOpt
    THEN [st EXCEPT !.cfg.hostname = Some(value)]
    ELSE IF EqIgnoreAsciiCase(key, <<"U", "s", "e", "r">>) /\ st.cfg.user = NoneOpt
    THEN [st EXCEPT !.cfg.user = Some(value)]
    ELSE IF EqIgnoreAsciiCase(key, <<"P", "o", "r", "t">>) /\ st.cfg.port = NoneOpt
    THEN [st EXCEPT !.cfg.port = ParseU16Text(value)]
    ELSE IF EqIgnoreAsciiCase(key, <<"I", "d", "e", "n", "t", "i", "t", "y", "F", "i", "l", "e">>)
    THEN [st EXCEPT !.cfg.identity_files = Append(@, ExpandHome(value, home))]
    ELSE st

RECURSIVE ParseLines(_, _, _, _)
ParseLines(st, lines, host, home) ==
    IF lines = <<>> THEN st
    ELSE LET d == Directive(Head(lines))
         IN ParseLines(IF d = NoneOpt THEN st
                       ELSE ApplyDirective(st, The(d).key, The(d).value, host, home),
                       Tail(lines), host, home)

\* home is the variable HOME if it is set, file what reading
\* $HOME/.ssh/config returns
parse_ssh_host_config(home, file, host) ==
    LET cfg == SshHostConfig(NoneOpt, NoneOpt, NoneOpt, NoneOpt, <<>>)
        start == [in_matching_block |-> FALSE, seen_proxy_jump |-> FALSE, cfg |-> cfg]
    IN IF home = NoneOpt THEN cfg
       ELSE IF ~file.ok THEN cfg
       ELSE ParseLines(start, Lines(file.value), host, The(home)).cfg

\* the lines the configuration files are made of
ConfigLines ==
    <<<<"H", "o", "s", "t", " ", "w", "e", "b">>, <<"H", "o", "s", "t", " ", "*">>, <<"h", "o", "s", "t", "\t", "d", "b", " ", "w", "*">>, <<"H", "o", "s", "t", "N", "a", "m", "e", " ", "a">>, <<"U", "s", "e", "r", " ", "u">>,
      <<"u", "s", "e", "r", "=", "v">>, <<"P", "o", "r", "t", " ", "2", "2">>, <<"P", "o", "r", "t", " ", "x">>, <<"P", "r", "o", "x", "y", "J", "u", "m", "p", " ", "n", "o", "n", "e">>, <<"P", "r", "o", "x", "y", "J", "u", "m", "p", " ", "j">>,
      <<"I", "d", "e", "n", "t", "i", "t", "y", "F", "i", "l", "e", " ", "~", "/", "k">>, <<"I", "d", "e", "n", "t", "i", "t", "y", "F", "i", "l", "e", " ", "/", "i">>, <<"M", "a", "t", "c", "h", " ", "a", "l", "l">>, <<" ", "#", " ", "c">>>>

RECURSIVE JoinLines(_)
JoinLines(ls) ==
    IF ls = <<>> THEN <<>> ELSE ConfigLines[Head(ls)] \o <<"\n">> \o JoinLines(Tail(ls))

\* the files of at most n lines
ConfigTexts(n) == {JoinLines(ls) : ls \in SeqOf(DOMAIN ConfigLines, n)}
ConfigHosts == {<<"w", "e", "b">>, <<"d", "b">>}
ConfigHomes == {NoneOpt, Some(<<"/", "h">>)}

\* Session::connect calls it once
ParseSshHostConfig(home, file, host) ==
    /\ call.fn = "none"
    /\ call' = [fn |-> "parse_ssh_host_config",
                args |-> [home |-> home, file |-> file, host |-> host],
                result |-> parse_ssh_host_config(home, file, host)]
    /\ UNCHANGED <<hostname, ports, selected_index, connection_state,
                   last_scan_at, running, forwards, modal,
                   show_inactive_forwards, saved, bgq, cmdq, exited,
                   iterations, disc_done, consecutive_timeouts,
                   timeouts_in_a_row, listeners, tasks, paused_on, deploy,
                   auth, agent, store,
                   conn_log, notifier, account, held_open>>

NextSshConfig ==
    \/ call.fn = "none" /\ \E text \in ConfigTexts(MaxConfigLines), host \in ConfigHosts :
          ParseSshHostConfig(Some(<<"/", "h">>), Ok(text), host)
    \/ \E home \in ConfigHomes, host \in ConfigHosts :
          ParseSshHostConfig(home, Err("io"), host)
    \/ \E host \in ConfigHosts : ParseSshHostConfig(NoneOpt, Ok(<<>>), host)

SpecSshConfig == InitCalls /\ [][NextSshConfig]_vars

(***************************************************************************)
(* sshfwd-agent scanner/proc_net_tcp.rs: parse_proc_net_tcp, dedup_entries *)
(***************************************************************************)
\* the most lines after the first one in a /proc/net/tcp text
MaxProcLines == 2
\* the most entries given to dedup_entries
MaxEntries == 3

LISTEN_STATE == <<"0", "A">>

TcpEntry(protocol, local_addr, port, uid, inode) ==
    [protocol |-> protocol, local_addr |-> local_addr, port |-> port, uid |-> uid,
     inode |-> inode]

\* a character that takes two bytes in UTF-8; every other character of the
\* texts here takes one
WideChars == {"é"}
RECURSIVE ByteLen(_)
ByteLen(s) ==
    IF s = <<>> THEN 0
    ELSE (IF Head(s) \in WideChars THEN 2 ELSE 1) + ByteLen(Tail(s))

\* is the byte index i a character boundary of s (str::is_char_boundary)
IsCharBoundary(s, i) == \E k \in 0..Len(s) : ByteLen(SubSeq(s, 1, k)) = i
\* &s[a..b] for byte indexes that are character boundaries
ByteSlice(s, a, b) ==
    LET first == CHOOSE k \in 0..Len(s) : ByteLen(SubSeq(s, 1, k)) = a
        last == CHOOSE k \in 0..Len(s) : ByteLen(SubSeq(s, 1, k)) = b
    IN SubSeq(s, first + 1, last)

HexValue(c) ==
    (CHOOSE i \in DOMAIN HexChars : HexChars[i] = ToLowercase(<<c>>)[1]) - 1

\* uN::from_str_radix(s, 16) for a type of width nibbles: an optional +, then
\* one hexadecimal digit at least in either case, and no overflow. The value is
\* given as its nibbles, most significant first.
FromStrRadix16(s, width) ==
    LET body == IF s # <<>> /\ Head(s) = "+" THEN Tail(s) ELSE s
        n == StripZeros(body)
    IN IF body = <<>> \/ \E i \in 1..Len(body) : body[i] \notin HexDigits THEN NoneOpt
       ELSE IF Len(n) > width THEN NoneOpt
       ELSE Some([i \in 1..width |->
                     IF i <= width - Len(n) THEN 0
                     ELSE HexValue(n[i - (width - Len(n))])])

\* the bytes of a value given as nibbles, most significant first (to_be_bytes)
BeBytes(nibbles) ==
    [k \in 1..(Len(nibbles) \div 2) |-> 16 * nibbles[2 * k - 1] + nibbles[2 * k]]
Reverse(s) == [i \in 1..Len(s) |-> s[Len(s) + 1 - i]]

\* format!("{}", n) for a number, as characters
DecimalText(n) == LET d == FormatPort(n) IN [i \in 1..Len(d) |-> Digits[d[i] + 1]]
\* format!("{:x}", n)
RECURSIVE LowerHex(_)
LowerHex(n) ==
    IF n < 16 THEN <<HexChars[n + 1]>> ELSE Append(LowerHex(n \div 16), HexChars[(n % 16) + 1])

\* Ipv4Addr::to_string
Ipv4Text(o) ==
    DecimalText(o[1]) \o <<".">> \o DecimalText(o[2]) \o <<".">> \o DecimalText(o[3])
    \o <<".">> \o DecimalText(o[4])

\* segments joined with colons (fmt_subslice of Ipv6Addr's Display)
RECURSIVE SegmentsText(_)
SegmentsText(segs) ==
    IF segs = <<>> THEN <<>>
    ELSE IF Len(segs) = 1 THEN LowerHex(segs[1])
    ELSE LowerHex(segs[1]) \o <<":">> \o SegmentsText(Tail(segs))

\* Ipv6Addr::to_string: ::, ::1, an IPv4-mapped address, or the segments with
\* the first of the longest runs of two zero segments or more written as ::
Ipv6Text(o) ==
    LET segs == [k \in 1..8 |-> 256 * o[2 * k - 1] + o[2 * k]]
        runs == {<<a, n>> \in (1..8) \X (1..8) :
                    /\ a + n - 1 <= 8
                    /\ \A k \in a..(a + n - 1) : segs[k] = 0}
        longest == CHOOSE r \in runs :
                      \A q \in runs : q[2] < r[2] \/ (q[2] = r[2] /\ r[1] <= q[1])
    IN IF \A k \in 1..8 : segs[k] = 0 THEN <<":", ":">>
       ELSE IF (\A k \in 1..7 : segs[k] = 0) /\ segs[8] = 1 THEN <<":", ":", "1">>
       ELSE IF (\A k \in 1..5 : segs[k] = 0) /\ segs[6] = 65535
            THEN <<":", ":", "f", "f", "f", "f", ":">> \o Ipv4Text(SubSeq(o, 13, 16))
       ELSE IF runs # {} /\ longest[2] > 1
            THEN SegmentsText(SubSeq(segs, 1, longest[1] - 1)) \o <<":", ":">>
                 \o SegmentsText(SubSeq(segs, longest[1] + longest[2], 8))
       ELSE SegmentsText(segs)

\* what a function returns that can also panic
Returned(v) == [panicked |-> FALSE, value |-> v]
Panicked == [panicked |-> TRUE, value |-> NoneOpt]

\* parse_ipv6_addr on a text of 32 bytes: the octets of the four words so
\* far; a word is sliced out of the text, then parsed
RECURSIVE Ipv6Words(_, _, _)
Ipv6Words(hex, i, octets) ==
    IF i = 4 THEN Returned(Some(Ipv6Text(octets)))
    ELSE IF ~IsCharBoundary(hex, i * 8) \/ ~IsCharBoundary(hex, (i + 1) * 8)
         THEN Panicked
    ELSE LET word == FromStrRadix16(ByteSlice(hex, i * 8, (i + 1) * 8), 8)
         IN IF word = NoneOpt THEN Returned(NoneOpt)
            ELSE Ipv6Words(hex, i + 1, octets \o Reverse(BeBytes(The(word))))

parse_ipv6_addr(hex) ==
    IF ByteLen(hex) # 32 THEN Returned(NoneOpt) ELSE Ipv6Words(hex, 0, <<>>)

\* parse_address: the address text and the port, nothing, or a panic
parse_address(addr_port, protocol) ==
    LET parts == SplitOnce(addr_port, {":"})
        addr_hex == The(parts)[1]
        port == FromStrRadix16(The(parts)[2], 4)
        addr_u32 == FromStrRadix16(addr_hex, 8)
        port_value == 4096 * The(port)[1] + 256 * The(port)[2] + 16 * The(port)[3]
                      + The(port)[4]
        With(addr) == IF addr.panicked \/ addr.value = NoneOpt THEN addr
                      ELSE Returned(Some(<<The(addr.value), port_value>>))
    IN IF parts = NoneOpt THEN Returned(NoneOpt)
       ELSE IF port = NoneOpt THEN Returned(NoneOpt)
       ELSE IF protocol = Tcp
            THEN IF ByteLen(addr_hex) # 8 THEN Returned(NoneOpt)
                 ELSE IF addr_u32 = NoneOpt THEN Returned(NoneOpt)
                 ELSE With(Returned(Some(Ipv4Text(Reverse(BeBytes(The(addr_u32)))))))
       ELSE IF ByteLen(addr_hex) # 32 THEN Returned(NoneOpt)
       ELSE With(parse_ipv6_addr(addr_hex))

\* u64::MAX, in decimal
U64_MAX_DIGITS == <<"1", "8", "4", "4", "6", "7", "4", "4", "0", "7", "3", "7", "0", "9", "5", "5", "1", "6", "1", "5">>

\* str::parse::<u64>, as ParseU32
ParseU64(s) ==
    LET body == IF s # <<>> /\ Head(s) = "+" THEN Tail(s) ELSE s
        n == StripZeros(body)
    IN IF body = <<>> \/ \E i \in 1..Len(body) : ~IsDigit(body[i]) THEN NoneOpt
       ELSE IF Len(n) > Len(U64_MAX_DIGITS) THEN NoneOpt
       ELSE IF Len(n) = Len(U64_MAX_DIGITS) /\ ~DigitsLeq(n, U64_MAX_DIGITS) THEN NoneOpt
       ELSE Some(n)

\* the body of the loop of parse_proc_net_tcp: the entry of a line, nothing
\* for a line that is skipped, or a panic
ParseLine(line, protocol) ==
    LET fields == SplitWhitespace(line)
        parsed == parse_address(fields[2], protocol)
        uid == ParseU32(fields[8])
        inode == ParseU64(fields[10])
    IN IF Len(fields) < 12 THEN Returned(NoneOpt)
       ELSE IF fields[4] # LISTEN_STATE THEN Returned(NoneOpt)
       ELSE IF parsed.panicked THEN Panicked
       ELSE IF parsed.value = NoneOpt THEN Returned(NoneOpt)
       ELSE IF uid = NoneOpt THEN Returned(NoneOpt)
       ELSE IF inode = NoneOpt THEN Returned(NoneOpt)
       ELSE Returned(Some(TcpEntry(protocol, The(parsed.value)[1], The(parsed.value)[2],
                                   The(uid), The(inode))))

RECURSIVE ParseProcLines(_, _, _)
ParseProcLines(entries, lines, protocol) ==
    IF lines = <<>> THEN Returned(entries)
    ELSE LET r == ParseLine(Head(lines), protocol)
         IN IF r.panicked THEN Panicked
            ELSE ParseProcLines(IF r.value = NoneOpt THEN entries
                                ELSE Append(entries, The(r.value)),
                                Tail(lines), protocol)

\* parse_proc_net_tcp: the entries, or a panic
parse_proc_net_tcp(content, protocol) ==
    LET lines == Lines(content)
    IN ParseProcLines(<<>>, IF lines = <<>> THEN <<>> ELSE Tail(lines), protocol)

normalize_addr(addr) ==
    IF StartsWith(addr, <<":", ":", "f", "f", "f", "f", ":">>) THEN SubSeq(addr, 8, Len(addr)) ELSE addr

EntryKey(entry) == <<entry.port, normalize_addr(entry.local_addr)>>

\* a faulty loop of dedup_entries: insert in place of entry().or_insert(), so
\* the last entry of a key is the one kept
SeenLastWins(entries) ==
    {entries[i] : i \in {i \in 1..Len(entries) :
        \A j \in (i + 1)..Len(entries) : EntryKey(entries[j]) # EntryKey(entries[i])}}

\* the values of the map seen after the loop of dedup_entries
Seen(entries) ==
    {entries[i] : i \in {i \in 1..Len(entries) :
        \A j \in 1..(i - 1) : EntryKey(entries[j]) # EntryKey(entries[i])}}

\* dedup_entries: into_values visits the map in an order of its own
dedup_entries(entries) == Orders(Seen(entries))

\* the lines of /proc/net/tcp and /proc/net/tcp6, with fields as short as the
\* parse allows: local address, state, uid and inode are the fields read
ProcLine(local_address, st, uid, inode) ==
    <<" ", "0", ":", " ">> \o local_address \o <<" ", "0", ":", "0", " ">> \o st \o <<" ", "0", ":", "0", " ", "0", ":", "0", " ", "0", " ">> \o uid \o <<" ", "0", " ">>
    \o inode \o <<" ", "1", " ", "0">>

ProcHeader == <<" ", "s", "l", " ", "l", "o", "c", "a", "l", "_", "a", "d", "d", "r", "e", "s", "s", " ", "r", "e", "m", "_", "a", "d", "d", "r", "e", "s", "s", " ", "s", "t", " ", "t", "x", "_", "q", "u", "e", "u", "e", " ", "r", "x", "_", "q", "u", "e", "u", "e", " ", "t", "r", " ", "t", "m", "-", ">", "w", "h", "e", "n", " ", "r", "e", "t", "r", "n", "s", "m", "t", " ", "u", "i", "d", " ", "t", "i", "m", "e", "o", "u", "t", " ", "i", "n", "o", "d", "e">>

ProcLines ==
    <<ProcLine(<<"0", "1", "0", "0", "0", "0", "7", "F", ":", "0", "5", "3", "9">>, <<"0", "A">>, <<"1", "0", "8">>, <<"1", "2", "3", "4", "5">>),
      ProcLine(<<"0", "0", "0", "0", "0", "0", "0", "0", ":", "0", "0", "5", "0">>, <<"0", "A">>, <<"0">>, <<"6", "7", "8", "9", "0">>),
      ProcLine(<<"0", "1", "0", "0", "0", "0", "7", "F", ":", "1", "F", "9", "0">>, <<"0", "1">>, <<"1", "0", "0", "0">>, <<"1", "1", "1", "1", "1">>),
      ProcLine(<<"0", "1", "0", "0", "0", "0", "7", "f", ":", "0", "0", "5", "0">>, <<"0", "a">>, <<"0">>, <<"5">>),
      <<" ", "0", ":", " ", "0", "1", "0", "0", "0", "0", "7", "F", ":", "0", "5", "3", "9", " ", "0", ":", "0", " ", "0", "A", " ", "0", ":", "0", " ", "0", ":", "0", " ", "0", " ", "1", "0", "8", " ", "0", " ", "1", "2", "3", "4", "5", " ", "1">>,
      ProcLine(<<"1", "0", "0", "0", "0", "7", "F", ":", "0", "0", "5", "0">>, <<"0", "A">>, <<"0">>, <<"5">>),
      ProcLine(<<"+", "1", "0", "0", "0", "0", "7", "F", ":", "0", "0", "5", "0">>, <<"0", "A">>, <<"0">>, <<"5">>),
      ProcLine(<<"0", "1", "0", "0", "0", "0", "7", "G", ":", "0", "0", "5", "0">>, <<"0", "A">>, <<"0">>, <<"5">>),
      ProcLine(<<"0", "1", "0", "0", "0", "0", "7", "F", ":", "1", "0", "0", "5", "0">>, <<"0", "A">>, <<"0">>, <<"5">>),
      ProcLine(<<"0", "1", "0", "0", "0", "0", "7", "F", "0", "0", "5", "0">>, <<"0", "A">>, <<"0">>, <<"5">>),
      ProcLine(<<"0", "1", "0", "0", "0", "0", "7", "F", ":", "0", "0", "5", "0">>, <<"0", "A">>, <<"-", "1">>, <<"5">>),
      ProcLine(<<"0", "1", "0", "0", "0", "0", "7", "F", ":", "0", "0", "5", "0">>, <<"0", "A">>, <<"0">>, <<"1", "8", "4", "4", "6", "7", "4", "4", "0", "7", "3", "7", "0", "9", "5", "5", "1", "6", "1", "6">>),
      ProcLine(<<"0", "0", "0", "0", "0", "0", "0", "0", "0", "0", "0", "0", "0", "0", "0", "0", "0", "0", "0", "0", "0", "0", "0", "0", "0", "0", "0", "0", "0", "0", "0", "0", ":", "1", "F", "9", "0">>, <<"0", "A">>, <<"1", "0", "0", "0">>, <<"2", "2", "2", "2", "2">>),
      ProcLine(<<"0", "0", "0", "0", "0", "0", "0", "0", "0", "0", "0", "0", "0", "0", "0", "0", "0", "0", "0", "0", "0", "0", "0", "0", "0", "1", "0", "0", "0", "0", "0", "0", ":", "0", "5", "3", "9">>, <<"0", "A">>, <<"1", "0", "8">>, <<"3", "3", "3", "3", "3">>),
      ProcLine(<<"0", "0", "0", "0", "0", "0", "0", "0", "0", "0", "0", "0", "0", "0", "0", "0", "F", "F", "F", "F", "0", "0", "0", "0", "0", "1", "0", "0", "0", "0", "7", "F", ":", "0", "5", "3", "9">>, <<"0", "A">>, <<"1", "0", "8">>, <<"4", "4", "4", "4", "4">>),
      ProcLine(<<"0", "0", "0", "0", "8", "0", "F", "E", "0", "0", "0", "0", "0", "0", "0", "0", "F", "F", "0", "0", "0", "0", "0", "0", "0", "1", "0", "0", "A", "8", "C", "0", ":", "0", "0", "5", "0">>, <<"0", "A">>, <<"0">>, <<"5">>),
      ProcLine(<<"0", "0", "0", "0", "0", "0", "0", "é", "0", "0", "0", "0", "0", "0", "0", "0", "0", "0", "0", "0", "0", "0", "0", "0", "0", "0", "0", "0", "0", "0", "0", ":", "0", "0", "5", "0">>, <<"0", "A">>, <<"0">>, <<"5">>),
      ProcLine(<<"0", "0", "0", "0", "0", "0", "é", ":", "0", "0", "5", "0">>, <<"0", "A">>, <<"0">>, <<"5">>),
      <<>>>>

RECURSIVE JoinProcLines(_)
JoinProcLines(ls) ==
    IF ls = <<>> THEN <<>> ELSE ProcLines[Head(ls)] \o <<"\n">> \o JoinProcLines(Tail(ls))

\* the texts: empty, or a first line, the header or a line of a socket, and
\* lines after it
ProcContents ==
    {<<>>}
    \cup {first \o <<"\n">> \o JoinProcLines(ls) :
             first \in {ProcHeader, ProcLines[1]},
             ls \in SeqOf(DOMAIN ProcLines, MaxProcLines)}

ParseProcNetTcp(content, protocol) ==
    /\ call.fn = "none"
    /\ call' = [fn |-> "parse_proc_net_tcp",
                args |-> [content |-> content, protocol |-> protocol],
                result |-> parse_proc_net_tcp(content, protocol)]
    /\ UNCHANGED <<hostname, ports, selected_index, connection_state,
                   last_scan_at, running, forwards, modal,
                   show_inactive_forwards, saved, bgq, cmdq, exited,
                   iterations, disc_done, consecutive_timeouts,
                   timeouts_in_a_row, listeners, tasks, paused_on, deploy,
                   auth, agent, store,
                   conn_log, notifier, account, held_open>>

NextProcNetTcp ==
    call.fn = "none" /\ \E content \in ProcContents, protocol \in {Tcp, Tcp6} :
        ParseProcNetTcp(content, protocol)

SpecProcNetTcp == InitCalls /\ [][NextProcNetTcp]_vars

\* the entries given to dedup_entries: the inode tells two entries of one key
\* apart
DedupSamples ==
    {TcpEntry(Tcp, <<"0", ".", "0", ".", "0", ".", "0">>, 80, <<"0">>, <<"1">>),
     TcpEntry(Tcp6, <<":", ":">>, 80, <<"0">>, <<"2">>),
     TcpEntry(Tcp6, <<":", ":", "f", "f", "f", "f", ":", "0", ".", "0", ".", "0", ".", "0">>, 80, <<"0">>, <<"3">>),
     TcpEntry(Tcp, <<"1", "2", "7", ".", "0", ".", "0", ".", "1">>, 80, <<"0">>, <<"4">>),
     TcpEntry(Tcp6, <<":", ":", "f", "f", "f", "f", ":", "1", "2", "7", ".", "0", ".", "0", ".", "1">>, 80, <<"0">>, <<"5">>),
     TcpEntry(Tcp, <<"1", "2", "7", ".", "0", ".", "0", ".", "1">>, 22, <<"0">>, <<"6">>)}

DedupEntries(entries, result) ==
    /\ call.fn = "none"
    /\ call' = [fn |-> "dedup_entries", args |-> [entries |-> entries],
                result |-> result]
    /\ UNCHANGED <<hostname, ports, selected_index, connection_state,
                   last_scan_at, running, forwards, modal,
                   show_inactive_forwards, saved, bgq, cmdq, exited,
                   iterations, disc_done, consecutive_timeouts,
                   timeouts_in_a_row, listeners, tasks, paused_on, deploy,
                   auth, agent, store,
                   conn_log, notifier, account, held_open>>

NextDedup ==
    call.fn = "none" /\ \E entries \in SeqOf(DedupSamples, MaxEntries) :
        \E result \in dedup_entries(entries) : DedupEntries(entries, result)

SpecDedup == InitCalls /\ [][NextDedup]_vars

(***************************************************************************)
(* sshfwd-agent main.rs, scanner/linux.rs, scanner/macos.rs: the agent     *)
(* process, and the client reading its lines                               *)
(***************************************************************************)
\* the most loop iterations of one agent process
MaxScans == 3
\* the most agent processes started after the first
MaxAgentRuns == 1
\* the most scans of the agent whose lines the client reads
MaxDeliveredScans == 2

\* the lines on stdout
OkLine(scan) == [status |-> "ok", scan |-> scan]
ErrorLine(kind) == [status |-> "error", kind |-> kind]
VersionLine == [status |-> "version"]

\* /proc/net/tcp and /proc/net/tcp6 as the kernel writes them: 127.0.0.1:1337
\* and 0.0.0.0:80 listening, and ::ffff:127.0.0.1:1337 and [::]:80 listening
KernelTcp ==
    {ProcHeader \o <<"\n">>
     \o ProcLine(<<"0", "1", "0", "0", "0", "0", "7", "F", ":", "0", "5", "3", "9">>, <<"0", "A">>, <<"1", "0", "8">>, <<"1", "2", "3", "4", "5">>) \o <<"\n">>
     \o ProcLine(<<"0", "0", "0", "0", "0", "0", "0", "0", ":", "0", "0", "5", "0">>, <<"0", "A">>, <<"0">>, <<"6", "7", "8", "9", "0">>) \o <<"\n">>
     \o ProcLine(<<"0", "1", "0", "0", "0", "0", "7", "F", ":", "1", "F", "9", "0">>, <<"0", "1">>, <<"1", "0", "0", "0">>, <<"1", "1", "1", "1", "1">>) \o <<"\n">>}
KernelTcp6 ==
    {ProcHeader \o <<"\n">>
     \o ProcLine(<<"0", "0", "0", "0", "0", "0", "0", "0", "0", "0", "0", "0", "0", "0", "0", "0", "F", "F", "F", "F", "0", "0", "0", "0", "0", "1", "0", "0", "0", "0", "7", "F", ":", "0", "5", "3", "9">>, <<"0", "A">>, <<"1", "0", "8">>, <<"4", "4", "4", "4", "4">>)
     \o <<"\n">>
     \o ProcLine(<<"0", "0", "0", "0", "0", "0", "0", "0", "0", "0", "0", "0", "0", "0", "0", "0", "0", "0", "0", "0", "0", "0", "0", "0", "0", "0", "0", "0", "0", "0", "0", "0", ":", "0", "0", "5", "0">>, <<"0", "A">>, <<"0">>, <<"2", "2", "2", "2", "2">>)
     \o <<"\n">>}

\* fs::read_to_string of the two files
TcpReads == {Err("io")} \cup {Ok(c) : c \in KernelTcp}
Tcp6Reads == {Err("io")} \cup {Ok(c) : c \in KernelTcp6}

\* what map_inodes_to_processes finds: the pid of the process that holds the
\* socket of an inode, for the inodes it finds a process for
ProcessTables ==
    {<<>>,
     [inode \in {<<"1", "2", "3", "4", "5">>, <<"6", "7", "8", "9", "0">>, <<"2", "2", "2", "2", "2">>} |->
        IF inode = <<"6", "7", "8", "9", "0">> THEN 3 ELSE IF inode = <<"2", "2", "2", "2", "2">> THEN 3 ELSE 9]}

ListeningPort(entry, inode_to_process) ==
    LP(entry.protocol, entry.local_addr, entry.port,
       IF entry.inode \in DOMAIN inode_to_process
       THEN Some(inode_to_process[entry.inode]) ELSE NoneOpt)

\* a faulty counter: a scan that fails takes an index too
ScanIndexAfterAnyScan(scan_index, read_ok) == scan_index + 1

\* the field scan_index after LinuxScanner::scan
ScanIndexAfter(scan_index, read_ok) == IF read_ok THEN scan_index + 1 ELSE scan_index

\* LinuxScanner::scan: the response, for what the reads return, the order in
\* which the map of dedup_entries is visited and the processes found
LinuxScan(scan_index, tcp, tcp6, deduped, inode_to_process) ==
    IF ~tcp.ok THEN ErrorLine("scan_failed")
    ELSE OkLine([hostname |-> "h",
                 ports |-> [i \in 1..Len(deduped) |->
                               ListeningPort(deduped[i], inode_to_process)],
                 scan_index |-> scan_index])

\* the entries of LinuxScanner::scan before dedup_entries (none if the first
\* read fails, which returns before)
ParsedEntries(tcp, tcp6) ==
    IF ~tcp.ok THEN Returned(<<>>)
    ELSE LET v4 == parse_proc_net_tcp(tcp.value, Tcp)
             v6 == parse_proc_net_tcp(IF tcp6.ok THEN tcp6.value ELSE <<>>, Tcp6)
         IN IF v4.panicked \/ v6.panicked THEN Panicked
            ELSE Returned(v4.value \o v6.value)

\* the same, worked out once for each pair of reads
LinuxEntriesOf ==
    [reads \in TcpReads \X Tcp6Reads |-> ParsedEntries(reads[1], reads[2])]
LinuxEntries(tcp, tcp6) == LinuxEntriesOf[<<tcp, tcp6>>]

\* MacosScanner::scan: no ports
MacosScan(scan_index) ==
    OkLine([hostname |-> "h", ports |-> <<>>, scan_index |-> scan_index])

\* a faulty loop: a flush that fails does not end it
BreaksOnWriteOnly(once, write_ok, flush_ok) == ~write_ok \/ once

\* the loop of main ends after this iteration
Breaks(once, write_ok, flush_ok) == ~write_ok \/ ~flush_ok \/ once

\* main up to the loop
AgentMain(args, os) ==
    /\ agent.pc = "main"
    /\ agent' = IF "--version" \in args
                THEN [agent EXCEPT !.pc = "exited", !.lines = <<VersionLine>>,
                                   !.writes = 1]
                ELSE [agent EXCEPT !.pc = "loop", !.once = "--once" \in args,
                                   !.os = os]
    /\ UNCHANGED <<hostname, ports, selected_index, connection_state,
                   last_scan_at, running, forwards, modal,
                   show_inactive_forwards, saved, bgq, cmdq, exited,
                   iterations, disc_done, consecutive_timeouts,
                   timeouts_in_a_row, listeners, tasks, paused_on, deploy,
                   auth, call, store,
                   conn_log, notifier, account, held_open>>

\* one iteration of the loop of main, for what the reads return, the
\* processes found and the outcome of the write and of the flush; deduped is
\* the order in which the map of dedup_entries is visited
AgentLoop(tcp, tcp6, inode_to_process, write_ok, flush_ok) ==
    /\ agent.pc = "loop"
    /\ agent.iterations < MaxScans
    /\ \E entries \in {LinuxEntries(tcp, tcp6)} :
          IF agent.os = "linux" /\ entries.panicked
          THEN agent' = [agent EXCEPT !.pc = "exited", !.failure = "panic",
                                      !.iterations = @ + 1]
          ELSE \E deduped \in (IF agent.os = "linux" THEN dedup_entries(entries.value)
                                ELSE {<<>>}) :
                 \E line \in {IF agent.os = "linux"
                               THEN LinuxScan(agent.scan_index, tcp, tcp6, deduped,
                                              inode_to_process)
                               ELSE MacosScan(agent.scan_index)} :
                    agent' =
                      [agent EXCEPT
                         !.iterations = @ + 1,
                         !.scan_index = ScanIndexAfter(@, agent.os # "linux" \/ tcp.ok),
                         !.writes = @ + 1,
                         !.lines = IF write_ok THEN Append(@, line) ELSE @,
                         !.failure = IF ~write_ok THEN "write"
                                     ELSE IF ~flush_ok THEN "flush" ELSE "none",
                         !.pc = IF Breaks(agent.once, write_ok, flush_ok) THEN "exited"
                                ELSE "loop"]
    /\ UNCHANGED <<hostname, ports, selected_index, connection_state,
                   last_scan_at, running, forwards, modal,
                   show_inactive_forwards, saved, bgq, cmdq, exited,
                   iterations, disc_done, consecutive_timeouts,
                   timeouts_in_a_row, listeners, tasks, paused_on, deploy,
                   auth, call, store,
                   conn_log, notifier, account, held_open>>

\* the client starts a new agent process after the one before has ended
AgentRestart ==
    /\ agent.pc = "exited"
    /\ agent.runs < MaxAgentRuns
    /\ agent' = [AgentStart EXCEPT !.runs = agent.runs + 1]
    /\ UNCHANGED <<hostname, ports, selected_index, connection_state,
                   last_scan_at, running, forwards, modal,
                   show_inactive_forwards, saved, bgq, cmdq, exited,
                   iterations, disc_done, consecutive_timeouts,
                   timeouts_in_a_row, listeners, tasks, paused_on, deploy,
                   auth, call, store,
                   conn_log, notifier, account, held_open>>

\* what the read of a line of the agent gives the discovery loop
ReadOfLine(line) ==
    CASE line.status = "ok" ->
           [kind |-> "ok_line", hostname |-> line.scan.hostname, ports |-> line.scan.ports]
      [] line.status = "error" -> [kind |-> "error_line", hostname |-> "", ports |-> <<>>]
      [] OTHER -> [kind |-> "bad_line", hostname |-> "", ports |-> <<>>]

\* main.rs: one turn of the discovery loop that reads the next line the agent
\* has written
DiscoveryTakesLine ==
    /\ ~exited /\ ~disc_done
    /\ Len(bgq) < MaxBg
    /\ agent.taken < Len(agent.lines)
    /\ LET read == ReadOfLine(agent.lines[agent.taken + 1])
           ev == NextEvent(consecutive_timeouts, read)
       IN /\ timeouts_in_a_row' = 0
          /\ consecutive_timeouts' = TimeoutsAfter(consecutive_timeouts, read)
          /\ bgq' = Append(bgq, DiscoveryMessage(ev))
          /\ disc_done' = (ev.kind \notin {"Scan", "Warning"})
    /\ agent' = [agent EXCEPT !.taken = @ + 1]
    /\ UNCHANGED <<hostname, ports, selected_index, connection_state,
                   last_scan_at, running, forwards, modal,
                   show_inactive_forwards, saved, cmdq, exited, iterations,
                   listeners, tasks, paused_on, deploy, auth, call, store,
                   conn_log, notifier, account, held_open>>

\* an agent process after another: the second file is not readable and no
\* process is found for a socket
NextAgent ==
    \/ \E args \in SUBSET {"--version", "--once"}, os \in {"linux", "macos"} :
          AgentMain(args, os)
    \/ agent.pc = "loop" /\ agent.iterations < MaxScans /\
       \E tcp \in TcpReads, write_ok \in BOOLEAN, flush_ok \in BOOLEAN :
          AgentLoop(tcp, Err("io"), <<>>, write_ok, flush_ok)
    \/ AgentRestart

SpecAgent == InitCalls /\ [][NextAgent]_vars

\* one agent process that scans MaxDeliveredScans times, the discovery loop
\* reading its lines and the main loop
NextScan ==
    \/ \E args \in SUBSET {"--version", "--once"}, os \in {"linux", "macos"} :
          AgentMain(args, os)
    \/ agent.pc = "loop" /\ agent.iterations < MaxDeliveredScans /\
       \E tcp \in TcpReads, tcp6 \in Tcp6Reads, inode_to_process \in ProcessTables,
          write_ok \in BOOLEAN :
          AgentLoop(tcp, tcp6, inode_to_process, write_ok, TRUE)
    \/ DiscoveryTakesLine
    \/ MainLoopBg

SpecScan == InitCalls /\ [][NextScan]_vars

(***************************************************************************)
(* forward/persistence.rs: load_forwards and save_forwards on list.json *)
(***************************************************************************)
\* the destinations that share the file
PersistDestinations == {Destination, "other"}
\* the longest JSON object another writer leaves in the file, in pairs
MaxPairs == 2

PersistedForward(remote_port, local_port) ==
    [remote_port |-> remote_port, local_port |-> local_port]

\* the lists the program saves
ForwardLists ==
    {<<>>, <<PersistedForward(1, 1)>>, <<PersistedForward(2, 8080)>>,
     <<PersistedForward(2, 2), PersistedForward(1, 1)>>}

\* a pair of the JSON object: a key and its value, an array of persisted
\* list or a value of another type
Pair(key, value) == [key |-> key, value |-> value]
JsonArray(items) == [type |-> "array", items |-> items]
NotAnArray == [type |-> "string", items |-> <<>>]
IsForwardList(value) == value.type = "array"

TextFile == [kind |-> "text", doc |-> <<>>]
JsonFile(doc) == [kind |-> "json", doc |-> doc]

\* fs::read_to_string: the text of the file, or the error
ReadToString(file) == IF file.kind = "absent" THEN Err("io") ELSE Ok(file)

\* serde_json::from_str::<ForwardsFile>: the map of the object, the value of
\* the last pair for a key that is given more than once; an error for a text
\* that is no JSON object of arrays of persisted list
FromStr(file) ==
    LET doc == file.doc
        keys == {doc[i].key : i \in 1..Len(doc)}
        last(k) == CHOOSE i \in 1..Len(doc) :
                      doc[i].key = k /\ \A j \in (i + 1)..Len(doc) : doc[j].key # k
    IN IF file.kind # "json" THEN Err("syntax")
       ELSE IF \E i \in 1..Len(doc) : ~IsForwardList(doc[i].value) THEN Err("data")
       ELSE Ok([k \in keys |-> doc[last(k)].value.items])

\* serde_json::to_string_pretty of the map: one pair for each key, in the
\* order the HashMap is iterated in
ToStringPretty(map) ==
    {JsonFile([i \in 1..Len(order) |-> Pair(order[i], JsonArray(map[order[i]]))]) :
       order \in Orders(DOMAIN map)}

load_forwards(file, destination) ==
    LET data == ReadToString(file)
        parsed == FromStr(data.value)
    IN IF ~data.ok THEN <<>>
       ELSE IF ~parsed.ok THEN <<>>
       ELSE IF destination \in DOMAIN parsed.value THEN parsed.value[destination]
       ELSE <<>>

\* the map save_forwards starts from
ExistingFile(file) ==
    LET data == ReadToString(file)
    IN IF data.ok /\ FromStr(data.value).ok THEN FromStr(data.value).value ELSE <<>>

\* a faulty save_forwards: the existing file is not read
save_forwards_from_empty(file, destination, list, write_ok) ==
    LET map == IF list = <<>> THEN <<>>
               ELSE [k \in {destination} |-> list]
    IN IF write_ok THEN ToStringPretty(map) ELSE {file}

\* save_forwards: the contents the file can have afterwards. write_ok tells
\* whether create_dir_all and fs::write succeed; their errors are dropped
save_forwards(file, destination, list, write_ok) ==
    LET existing == ExistingFile(file)
        map == IF list = <<>>
               THEN [k \in DOMAIN existing \ {destination} |-> existing[k]]
               ELSE [k \in DOMAIN existing \cup {destination} |->
                       IF k = destination THEN list ELSE existing[k]]
    IN IF write_ok THEN ToStringPretty(map) ELSE {file}

SaveForwardsCall(destination, list, write_ok) ==
    /\ \E file \in save_forwards(store.file, destination, list, write_ok) :
          store' = [file |-> file,
                    last |-> [fn |-> "save_forwards", destination |-> destination,
                              forwards |-> list, written |-> write_ok,
                              result |-> <<>>]]
    /\ UNCHANGED <<hostname, ports, selected_index, connection_state,
                   last_scan_at, running, forwards, modal,
                   show_inactive_forwards, saved, bgq, cmdq, exited,
                   iterations, disc_done, consecutive_timeouts,
                   timeouts_in_a_row, listeners, tasks, paused_on, deploy,
                   auth, call, agent,
                   conn_log, notifier, account, held_open>>

LoadForwardsCall(destination) ==
    /\ store' = [store EXCEPT !.last =
                   [fn |-> "load_forwards", destination |-> destination,
                    forwards |-> <<>>, written |-> FALSE,
                    result |-> load_forwards(store.file, destination)]]
    /\ UNCHANGED <<hostname, ports, selected_index, connection_state,
                   last_scan_at, running, forwards, modal,
                   show_inactive_forwards, saved, bgq, cmdq, exited,
                   iterations, disc_done, consecutive_timeouts,
                   timeouts_in_a_row, listeners, tasks, paused_on, deploy,
                   auth, call, agent,
                   conn_log, notifier, account, held_open>>

\* the values another writer gives a key
PairValues == {JsonArray(items) : items \in ForwardLists} \cup {NotAnArray}
\* the contents another writer leaves
FileContents ==
    {NoFile, TextFile}
      \cup {JsonFile(doc) :
              doc \in SeqOf([key : PersistDestinations, value : PairValues], MaxPairs)}

\* the file is written, or removed, by another program or by hand
FileEdited(file) ==
    /\ store' = [file |-> file, last |-> [NoStoreCall EXCEPT !.fn = "edited"]]
    /\ UNCHANGED <<hostname, ports, selected_index, connection_state,
                   last_scan_at, running, forwards, modal,
                   show_inactive_forwards, saved, bgq, cmdq, exited,
                   iterations, disc_done, consecutive_timeouts,
                   timeouts_in_a_row, listeners, tasks, paused_on, deploy,
                   auth, call, agent,
                   conn_log, notifier, account, held_open>>

NextPersistence ==
    \/ \E destination \in PersistDestinations, list \in ForwardLists,
          write_ok \in BOOLEAN : SaveForwardsCall(destination, list, write_ok)
    \/ \E destination \in PersistDestinations : LoadForwardsCall(destination)
    \/ \E file \in FileContents : FileEdited(file)

SpecPersistence == InitCalls /\ [][NextPersistence]_vars

(***************************************************************************)
(* notify.rs: detect_port_changes                                          *)
(***************************************************************************)
\* the largest port of the scans compared
MaxNotifyPort == 4
NotifyPorts == 1..MaxNotifyPort

PortChange(port, kind, process_name) ==
    [port |-> port, kind |-> kind, process_name |-> process_name]

\* Vec::sort of the ports of a set
RECURSIVE SortU16(_)
SortU16(S) ==
    IF S = {} THEN <<>>
    ELSE LET least == CHOOSE x \in S : \A y \in S : x <= y
         IN <<least>> \o SortU16(S \ {least})

\* the command line of the first entry of the list with the port, if that
\* entry has a process
ProcessName(port, port_list) ==
    LET hits == {i \in 1..Len(port_list) : port_list[i].port = port}
        first == CHOOSE i \in hits : \A j \in hits : i <= j
    IN IF hits = {} THEN NoneOpt
       ELSE IF port_list[first].process = NoneOpt THEN NoneOpt
       ELSE Some(The(port_list[first].process).cmdline)

\* a faulty test: every port that has a forward entry counts as reactivated
ChangeKindOfAnyEntry(fwds, port) ==
    IF port \in DOMAIN fwds THEN "Reactivated" ELSE "Appeared"

\* the kind of the change for a port that appeared
ChangeKind(fwds, port) ==
    IF port \in DOMAIN fwds /\ fwds[port].status = Starting THEN "Reactivated"
    ELSE "Appeared"

detect_port_changes(prev_scan_ports, new_scan_ports, fwds, new_ports, old_ports) ==
    LET prev == The(prev_scan_ports)
        appeared == SortU16(new_scan_ports \ prev)
        disappeared == SortU16(prev \ new_scan_ports)
    IN IF prev_scan_ports = NoneOpt THEN <<>>
       ELSE [i \in 1..Len(appeared) |->
               PortChange(appeared[i], ChangeKind(fwds, appeared[i]),
                          ProcessName(appeared[i], new_ports))]
            \o [i \in 1..Len(disappeared) |->
                  PortChange(disappeared[i], "Disappeared",
                             ProcessName(disappeared[i], old_ports))]

\* the forwards of the model when the scans are compared
NotifyForwards ==
    UNION {[D -> {ForwardEntry(1, st, 0) : st \in {Starting, Active, Paused}}] :
             D \in SUBSET {1, 2}}
\* the port lists of the two scans
NotifyPortLists ==
    {<<>>,
     <<[port |-> 2, process |-> Some([pid |-> 7, cmdline |-> "nginx"])],
       [port |-> 1, process |-> NoneOpt],
       [port |-> 2, process |-> Some([pid |-> 8, cmdline |-> "node"])],
       [port |-> 4, process |-> Some([pid |-> 9, cmdline |-> "sshd"])]>>}

DetectPortChanges(prev_scan_ports, new_scan_ports, fwds, new_ports, old_ports) ==
    /\ call' = [fn |-> "detect_port_changes",
                args |-> [prev_scan_ports |-> prev_scan_ports,
                          new_scan_ports |-> new_scan_ports, forwards |-> fwds,
                          new_ports |-> new_ports, old_ports |-> old_ports],
                result |-> detect_port_changes(prev_scan_ports, new_scan_ports, fwds,
                                               new_ports, old_ports)]
    /\ UNCHANGED <<hostname, ports, selected_index, connection_state,
                   last_scan_at, running, forwards, modal,
                   show_inactive_forwards, saved, bgq, cmdq, exited,
                   iterations, disc_done, consecutive_timeouts,
                   timeouts_in_a_row, listeners, tasks, paused_on, deploy,
                   auth, agent, store,
                   conn_log, notifier, account, held_open>>

NextNotify ==
    \/ call.fn = "none" /\
       \E prev \in SUBSET NotifyPorts, new \in SUBSET NotifyPorts,
          fwds \in NotifyForwards, new_ports \in NotifyPortLists,
          old_ports \in NotifyPortLists :
          DetectPortChanges(Some(prev), new, fwds, new_ports, old_ports)
    \/ call.fn = "none" /\
       \E new \in SUBSET NotifyPorts, fwds \in NotifyForwards,
          new_ports \in NotifyPortLists :
          DetectPortChanges(NoneOpt, new, fwds, new_ports, <<>>)

SpecNotify == InitCalls /\ [][NextNotify]_vars

(***************************************************************************)
(* notify.rs: NotifyBatch. Instant::now is a monotonic clock that ticks    *)
(* TicksPerSec times a second; extend and flush_if_ready are called in any *)
(* order, at any time.                                                     *)
(***************************************************************************)
NOTIFY_DEBOUNCE_SECS == 2
TicksPerSec == 2

\* Duration::as_secs: the whole seconds of a duration given in ticks
as_secs(d) == d \div TicksPerSec

\* Instant::elapsed
Elapsed(t, now) == now - t

\* a faulty extend: the window restarts whatever it is given
extend_restarts(batch, changes, now) ==
    [pending |-> batch.pending \o changes, last_change_at |-> Some(now)]

\* NotifyBatch::extend
extend(batch, changes, now) ==
    IF changes # <<>>
    THEN [pending |-> batch.pending \o changes, last_change_at |-> Some(now)]
    ELSE batch

\* notify_port_changes: nothing for no change, else one notification that
\* holds the changes given
notify_port_changes(shown, changes) ==
    IF changes = <<>> THEN shown ELSE Append(shown, changes)

\* NotifyBatch::flush_if_ready: the batch left, the notifications shown and
\* the value returned
flush_if_ready(batch, shown, now) ==
    LET ready == IF batch.last_change_at # NoneOpt
                 THEN as_secs(Elapsed(The(batch.last_change_at), now))
                        >= NOTIFY_DEBOUNCE_SECS
                 ELSE FALSE
    IN IF ready /\ batch.pending # <<>>
       THEN [batch |-> [pending |-> <<>>, last_change_at |-> NoneOpt],
             shown |-> notify_port_changes(shown, batch.pending),
             result |-> TRUE]
       ELSE [batch |-> batch, shown |-> shown, result |-> FALSE]

\* the changes of one call of extend: none, one or two, each of a port of its
\* own so that a change can be told from every other
ChangesFrom(first, n) ==
    [i \in 1..n |-> PortChange(first + i, "Appeared", NoneOpt)]

NotifierExtend(n) ==
    /\ notifier.extended + n <= MaxExtended
    /\ LET changes == ChangesFrom(notifier.extended, n)
       IN notifier' = [notifier EXCEPT
                         !.batch = extend(@, changes, notifier.now),
                         !.extended = @ + n,
                         !.last_extend = IF n > 0 THEN Some(notifier.now) ELSE @,
                         !.last = [fn |-> "extend", changes |-> changes,
                                   result |-> FALSE]]
    /\ UNCHANGED <<hostname, ports, selected_index, connection_state,
                   last_scan_at, running, forwards, modal,
                   show_inactive_forwards, saved, bgq, cmdq, exited,
                   iterations, disc_done, consecutive_timeouts,
                   timeouts_in_a_row, listeners, tasks, paused_on, deploy,
                   auth, call, agent, store, conn_log, account, held_open>>

NotifierFlush ==
    /\ LET r == flush_if_ready(notifier.batch, notifier.shown, notifier.now)
       IN notifier' = [notifier EXCEPT
                         !.batch = r.batch,
                         !.shown = r.shown,
                         !.last = [fn |-> "flush_if_ready", changes |-> <<>>,
                                   result |-> r.result]]
    /\ UNCHANGED <<hostname, ports, selected_index, connection_state,
                   last_scan_at, running, forwards, modal,
                   show_inactive_forwards, saved, bgq, cmdq, exited,
                   iterations, disc_done, consecutive_timeouts,
                   timeouts_in_a_row, listeners, tasks, paused_on, deploy,
                   auth, call, agent, store, conn_log, account, held_open>>

NotifierTick ==
    /\ notifier.now < MaxNow
    /\ notifier' = [notifier EXCEPT !.now = @ + 1]
    /\ UNCHANGED <<hostname, ports, selected_index, connection_state,
                   last_scan_at, running, forwards, modal,
                   show_inactive_forwards, saved, bgq, cmdq, exited,
                   iterations, disc_done, consecutive_timeouts,
                   timeouts_in_a_row, listeners, tasks, paused_on, deploy,
                   auth, call, agent, store, conn_log, account, held_open>>

NextNotifier ==
    \/ \E n \in 0..2 : NotifierExtend(n)
    \/ NotifierFlush
    \/ NotifierTick

SpecNotifier == InitCalls /\ [][NextNotifier]_vars

(***************************************************************************)
(* Several client sessions on one remote account: each runs the end of     *)
(* deploy_and_spawn (kill_stale_agent, then spawn_agent) against the one   *)
(* pid file and the processes of the account. A session is "new" before    *)
(* kill_stale_agent, "spawn_agent" after it, "connected" once its agent    *)
(* runs and "ended" after it has disconnected.                             *)
(***************************************************************************)
\* what cat .sshfwd/agent.pid answers: cat fails when there is no file
PidFileReply(acct) ==
    IF acct.pid_file = NoneOpt THEN Output(FALSE, <<>>)
    ELSE Output(TRUE, The(acct.pid_file))

\* what the verify command answers for the pid: the command name of a running
\* agent and a newline; neither /proc nor ps knows a process that has exited
CommReply(acct, pid_text) ==
    IF \E pid \in DOMAIN acct.procs :
          acct.procs[pid].running /\ DecimalText(pid) = pid_text
    THEN Output(TRUE, REMOTE_AGENT_NAME \o <<"\n">>)
    ELSE Output(FALSE, <<>>)

\* the running processes a kill command among execs names
Killed(acct, execs) ==
    {pid \in DOMAIN acct.procs :
        /\ acct.procs[pid].running
        /\ \E i \in 1..Len(execs) :
              execs[i].cmd = "kill" /\ execs[i].arg = DecimalText(pid)}

\* kill_stale_agent of session s, on what the account answers
SessionKillStaleAgent(s) ==
    /\ account.sessions[s] = "new"
    /\ LET pid_reply == PidFileReply(account)
           parsed == ParseU32(Trim(pid_reply.stdout))
           comm_reply == IF parsed = NoneOpt THEN ExecError
                         ELSE CommReply(account, The(parsed))
           killed == Killed(account, kill_stale_agent(pid_reply, comm_reply))
       IN account' =
            [account EXCEPT
               !.procs = [pid \in DOMAIN account.procs |->
                            IF pid \in killed
                            THEN [account.procs[pid] EXCEPT !.running = FALSE,
                                                            !.killed_by = Some(s)]
                            ELSE account.procs[pid]],
               !.sessions[s] = "spawn_agent"]
    /\ UNCHANGED <<hostname, ports, selected_index, connection_state,
                   last_scan_at, running, forwards, modal,
                   show_inactive_forwards, saved, bgq, cmdq, exited,
                   iterations, disc_done, consecutive_timeouts,
                   timeouts_in_a_row, listeners, tasks, paused_on, deploy,
                   auth, call, agent, store, conn_log, notifier, held_open>>

\* spawn_agent of session s, and the start of the agent it runs: main calls
\* write_pid_file, which writes process::id() and ignores a failure
SessionSpawnAgent(s, reply, written) ==
    /\ account.sessions[s] = "spawn_agent"
    /\ ~reply.ok => ~written
    /\ LET pid == Len(account.procs) + 1
       IN account' =
            IF reply.ok
            THEN [account EXCEPT
                    !.procs = Append(@, [session |-> s, running |-> TRUE,
                                         killed_by |-> NoneOpt]),
                    !.pid_file = IF written THEN Some(DecimalText(pid)) ELSE @,
                    !.sessions[s] = "connected"]
            ELSE [account EXCEPT !.sessions[s] = "ended"]
    /\ UNCHANGED <<hostname, ports, selected_index, connection_state,
                   last_scan_at, running, forwards, modal,
                   show_inactive_forwards, saved, bgq, cmdq, exited,
                   iterations, disc_done, consecutive_timeouts,
                   timeouts_in_a_row, listeners, tasks, paused_on, deploy,
                   auth, call, agent, store, conn_log, notifier, held_open>>

\* the client of session s disconnects
SessionEnds(s) ==
    /\ account.sessions[s] = "connected"
    /\ account' = [account EXCEPT !.sessions[s] = "ended"]
    /\ UNCHANGED <<hostname, ports, selected_index, connection_state,
                   last_scan_at, running, forwards, modal,
                   show_inactive_forwards, saved, bgq, cmdq, exited,
                   iterations, disc_done, consecutive_timeouts,
                   timeouts_in_a_row, listeners, tasks, paused_on, deploy,
                   auth, call, agent, store, conn_log, notifier, held_open>>

\* the agent of an ended session exits: its next writeln fails (broken pipe)
AgentExits(pid) ==
    /\ account.procs[pid].running
    /\ account.sessions[account.procs[pid].session] = "ended"
    /\ account' = [account EXCEPT !.procs[pid].running = FALSE]
    /\ UNCHANGED <<hostname, ports, selected_index, connection_state,
                   last_scan_at, running, forwards, modal,
                   show_inactive_forwards, saved, bgq, cmdq, exited,
                   iterations, disc_done, consecutive_timeouts,
                   timeouts_in_a_row, listeners, tasks, paused_on, deploy,
                   auth, call, agent, store, conn_log, notifier, held_open>>

NextSessions ==
    \/ \E s \in Sessions : SessionKillStaleAgent(s)
    \/ \E s \in Sessions, reply \in SpawnReplies, written \in BOOLEAN :
          SessionSpawnAgent(s, reply, written)
    \/ \E s \in Sessions : SessionEnds(s)
    \/ \E pid \in DOMAIN account.procs : AgentExits(pid)

SpecSessions == InitCalls /\ [][NextSessions]_vars

(***************************************************************************)
(* update(ScanReceived) on the lists an agent can send. dedup_entries      *)
(* keeps one entry for each (port, normalized address) and hands them on   *)
(* in the iteration order of its HashMap, so a scan is any order of a set  *)
(* of entries that differ in port or in address.                           *)
(***************************************************************************)
\* the most entries a scan lists
MaxListed == 3

\* the listening sockets of the remote host: two addresses of port 1 that no
\* process is known for, port 1 on tcp6, and port 2 of process 7
ListedEntries ==
    {LP(Tcp, "a", 1, NoneOpt), LP(Tcp, "b", 1, NoneOpt),
     LP(Tcp6, "c", 1, NoneOpt), LP(Tcp, "a", 2, Some(7))}

\* into_values().collect() of the entries dedup_entries has kept
ListedScans ==
    UNION {Orders(S) : S \in {T \in SUBSET ListedEntries : Cardinality(T) <= MaxListed}}

\* one iteration of the main loop that takes a ScanReceived; call keeps the
\* list the agent sent
ScanListReceived(list) ==
    /\ running /\ ~exited /\ cmdq = <<>>
    /\ Update(MsgScanReceived([hostname |-> "h", ports |-> list]))
    /\ call' = [fn |-> "ScanReceived", args |-> <<list>>, result |-> <<>>]
    /\ exited' = ~running'
    /\ iterations' = 1 - iterations
    /\ UNCHANGED <<show_inactive_forwards, bgq, disc_done, consecutive_timeouts,
                   timeouts_in_a_row, listeners, paused_on, tasks, deploy, auth,
                   agent, store, conn_log, notifier, account, held_open>>

NextPortOrder ==
    \/ \E list \in ListedScans : ScanListReceived(list)
    \/ CommandsTaken

SpecPortOrder == Init /\ [][NextPortOrder]_vars

(***************************************************************************)
(* Properties of update(ScanReceived)                                      *)
(***************************************************************************)
\* the commands a step adds to the command queue
Emitted == SubSeq(cmdq', Len(cmdq) + 1, Len(cmdq'))
\* how many of the emitted commands satisfy Test
CountEmitted(Test(_)) == Cardinality({i \in 1..Len(Emitted) : Test(Emitted[i])})
\* the ports a scan lists, as the agent sent them
ListedPorts(scan) == {scan.ports[i].port : i \in 1..Len(scan.ports)}

\* C1: when update processes a ScanReceived, a Pause{remote_port} is emitted
\* for a forward entry iff the entry was active or starting before the scan
\* and its remote port is not listed by the scan; there is exactly one Pause
\* per such entry, none for a port without an entry, and the entry is paused
\* afterwards.
C1_PauseIffActiveAndAbsent ==
    [][\A scan \in UpdateScans :
         UpdateScanReceived(scan) =>
           /\ \A i \in 1..Len(Emitted) :
                Emitted[i].type = "Pause" => Emitted[i].remote_port \in DOMAIN forwards
           /\ \A p \in DOMAIN forwards :
                LET IsPauseOfP(c) == c.type = "Pause" /\ c.remote_port = p
                    due == /\ forwards[p].status \in {Active, Starting}
                           /\ p \notin ListedPorts(scan)
                IN /\ CountEmitted(IsPauseOfP) = (IF due THEN 1 ELSE 0)
                   /\ due => forwards'[p].status = Paused]_vars

\* a scan has paused an entry while the model holds two entries
C1_Witness ==
    \E p \in DOMAIN forwards :
       /\ Cardinality(DOMAIN forwards) = 2
       /\ forwards[p].status = Paused
       /\ p \notin PortSet(ports)
       /\ Pause(p) \in Range(cmdq)

\* C2: when update processes a ScanReceived, a Reactivate is emitted for a
\* forward entry iff the entry was paused before the scan and its remote port
\* is listed by the scan; the one Reactivate carries the entry's remote port,
\* its stored local port and the hostname of this scan, and the entry is
\* starting afterwards.
C2_ReactivateIffPausedAndPresent ==
    [][\A scan \in UpdateScans :
         UpdateScanReceived(scan) =>
           /\ \A i \in 1..Len(Emitted) :
                Emitted[i].type = "Reactivate" => Emitted[i].remote_port \in DOMAIN forwards
           /\ \A p \in DOMAIN forwards :
                LET IsReactivateOfP(c) == c.type = "Reactivate" /\ c.remote_port = p
                    IsTheReactivate(c) ==
                        c = Reactivate(p, forwards[p].local_port, scan.hostname)
                    due == forwards[p].status = Paused /\ p \in ListedPorts(scan)
                IN /\ CountEmitted(IsReactivateOfP) = (IF due THEN 1 ELSE 0)
                   /\ due => /\ CountEmitted(IsTheReactivate) = 1
                             /\ forwards'[p].status = Starting]_vars

\* the first scan has reactivated the persisted forward 1 -> 3
C2_Witness ==
    /\ 1 \in DOMAIN forwards
    /\ forwards[1] = ForwardEntry(3, Starting, 0)
    /\ 1 \in PortSet(ports)
    /\ cmdq = <<Reactivate(1, 3, "h")>>

\* C3: processing a ScanReceived creates and removes no forward entry and
\* changes no entry's local port or connection count; an entry that is active
\* or starting with its port listed, or paused with its port not listed,
\* keeps its status and no command is emitted for it.
C3_ScanFrame ==
    [][\A scan \in UpdateScans :
         UpdateScanReceived(scan) =>
           /\ DOMAIN forwards' = DOMAIN forwards
           /\ \A p \in DOMAIN forwards :
                LET IsOfP(c) == c.remote_port = p
                    settled ==
                        \/ /\ forwards[p].status \in {Active, Starting}
                           /\ p \in ListedPorts(scan)
                        \/ forwards[p].status = Paused /\ p \notin ListedPorts(scan)
                IN /\ forwards'[p].local_port = forwards[p].local_port
                   /\ forwards'[p].active_connections = forwards[p].active_connections
                   /\ settled => /\ forwards'[p].status = forwards[p].status
                                 /\ CountEmitted(IsOfP) = 0]_vars

\* a scan that paused one entry left an active entry with an open connection
\* and a local port of its own as it was
C3_Witness ==
    /\ last_scan_at = Some(0)
    /\ \E p \in DOMAIN forwards, q \in DOMAIN forwards :
          /\ forwards[p].status = Active
          /\ forwards[p].active_connections > 0
          /\ forwards[p].local_port # p
          /\ p \in PortSet(ports)
          /\ forwards[q].status = Paused
          /\ cmdq = <<Pause(q)>>

(***************************************************************************)
(* Properties of the connection state and of update(Tick)                  *)
(***************************************************************************)
\* C6 as the specification states it: the connection state changes only from
\* connecting to connected and from connecting or connected to disconnected,
\* so that disconnected is final.
C6_DisconnectedIsFinal ==
    [][connection_state' # connection_state =>
         \/ connection_state = Connecting /\ connection_state' = Connected
         \/ /\ connection_state \in {Connecting, Connected}
            /\ connection_state' = Disconnected]_vars

\* C6: the connection state changes only (a) to connected, from any state,
\* when a scan is processed, (b) from connected to disconnected on a tick at
\* least STALENESS_THRESHOLD_SECS after the last scan, with running kept, and
\* (c) to disconnected when a discovery error is processed, which clears
\* running; it never returns to connecting, and once running is cleared it
\* never changes again.
C6_ConnectionTransitions ==
    [][/\ connection_state' # connection_state =>
            \/ /\ connection_state' = Connected
               /\ \E scan \in UpdateScans : UpdateScanReceived(scan)
            \/ /\ connection_state = Connected
               /\ connection_state' = Disconnected
               /\ running'
               /\ last_scan_at # NoneOpt
               /\ The(last_scan_at) >= STALENESS_THRESHOLD_SECS
            \/ connection_state' = Disconnected /\ ~running'
       /\ ~running => connection_state' = connection_state]_vars

\* a tick has found the last scan stale and the program is still running, so
\* that a later scan can be processed
C6_Witness ==
    /\ connection_state = Disconnected
    /\ running /\ ~exited
    /\ last_scan_at = Some(STALENESS_THRESHOLD_SECS)

\* C9: a Tick sets the connection state to disconnected when it is connected
\* and the last scan is at least STALENESS_THRESHOLD_SECS old, and leaves it
\* as it is otherwise; a Tick changes neither running nor the forward
\* entries and emits no command.
C9_Tick ==
    [][UpdateTick =>
         /\ connection_state' =
              IF /\ connection_state = Connected
                 /\ last_scan_at # NoneOpt
                 /\ The(last_scan_at) >= STALENESS_THRESHOLD_SECS
              THEN Disconnected
              ELSE connection_state
         /\ running' = running
         /\ forwards' = forwards
         /\ Emitted = <<>>]_vars

\* a tick has disconnected a model that holds forward entries
C9_Witness ==
    /\ connection_state = Disconnected
    /\ running
    /\ last_scan_at = Some(STALENESS_THRESHOLD_SECS)
    /\ \E p \in DOMAIN forwards : forwards[p].status = Active
    /\ cmdq = <<>>

(***************************************************************************)
(* Properties of the forward key                                           *)
(***************************************************************************)
\* C10: on Enter or 'f' with no modal open and a row with a port selected: if
\* the port has no forward entry, an entry (local port = remote port,
\* starting, 0 connections) is inserted, the other entries stay as they are
\* and exactly one Start{remote_port, local_port = remote_port, remote_host}
\* is emitted; if the port has an entry, the entries stay as they are and no
\* Start is emitted.
C10_ForwardKey ==
    [][\A key \in {KeyEnter, Char("f")} :
         LET sp == SelectedPort(ports, forwards, show_inactive_forwards,
                                selected_index)
             IsStart(c) == c.type = "Start"
         IN (modal = ModalNone /\ sp # NoneOpt /\ UpdateKey(key)) =>
              LET p == The(sp)
                  host == IF hostname = NoneOpt THEN Destination ELSE The(hostname)
                  IsTheStart(c) == c = Start(p, p, host)
              IN IF p \notin DOMAIN forwards
                 THEN /\ DOMAIN forwards' = DOMAIN forwards \cup {p}
                      /\ forwards'[p] = [local_port |-> p, status |-> Starting,
                                         active_connections |-> 0]
                      /\ \A q \in DOMAIN forwards : forwards'[q] = forwards[q]
                      /\ CountEmitted(IsStart) = 1
                      /\ CountEmitted(IsTheStart) = 1
                 ELSE /\ forwards' = forwards
                      /\ CountEmitted(IsStart) = 0]_vars

\* the key has created a second forward entry and its Start is queued
C10_Witness ==
    \E p \in DOMAIN forwards :
       /\ Cardinality(DOMAIN forwards) = 2
       /\ forwards[p] = ForwardEntry(p, Starting, 0)
       /\ cmdq = <<Start(p, p, "h")>>
       /\ modal = ModalNone

(***************************************************************************)
(* Properties of the combined system                                       *)
(***************************************************************************)
\* the tasks that hold a bound listener for remote port p
ListeningFor(p) ==
    {id \in DOMAIN tasks : tasks[id].remote_port = p /\ tasks[id].state = "listening"}
\* a command for remote port p waits in the command queue
CommandPending(p) == \E i \in 1..Len(cmdq) : cmdq[i].remote_port = p
\* a forward event for remote port p waits in the event queue
EventPending(p) ==
    \E i \in 1..Len(bgq) :
       bgq[i].type = "ForwardEvent" /\ bgq[i].event.remote_port = p

\* C4 as the specification states it: in every reachable state, an entry
\* whose status is paused has no listener bound for its remote port.
C4_PausedHasNoListener ==
    \A p \in DOMAIN forwards :
       forwards[p].status = Paused => ListeningFor(p) = {}

\* C4: in every reachable state of the combined system, an entry whose status
\* is paused, with no command for its remote port waiting in the command
\* queue and no forward event for it waiting in the event queue, has no
\* listener bound for its remote port. While a Pause is still queued, or the
\* Started event of a reactivated listener is, the entry can read paused with
\* the listener bound.
C4_QuiescentPausedHasNoListener ==
    \A p \in DOMAIN forwards :
       (forwards[p].status = Paused /\ ~CommandPending(p) /\ ~EventPending(p))
          => ListeningFor(p) = {}

\* the manager has handled the Pause of a forward it had started: the entry is
\* paused, nothing for it is in flight, the manager keeps the handle with the
\* entry's local port and the task the handle names is gone
C4_Witness ==
    \E p \in DOMAIN forwards :
       /\ forwards[p].status = Paused
       /\ ~CommandPending(p) /\ ~EventPending(p)
       /\ p \in DOMAIN listeners
       /\ listeners[p].local_port = forwards[p].local_port
       /\ listeners[p].abort_handle \notin DOMAIN tasks
       /\ p \notin PortSet(ports)
       /\ connection_state = Connected

(***************************************************************************)
(* Properties of the forward manager                                       *)
(***************************************************************************)
\* C5: for any sequence of Start, Stop, Pause and Reactivate commands, at
\* every moment at most one listener task is alive per remote port, and it is
\* the task the manager's handle for that port names: the listener a Start
\* or Reactivate finds for its remote port is cancelled in the same step that
\* spawns the new one.
C5_OneListenerPerRemotePort ==
    /\ \A rp \in RemotePorts :
          Cardinality({id \in DOMAIN tasks : tasks[id].remote_port = rp}) <= 1
    /\ \A id \in DOMAIN tasks :
          /\ tasks[id].remote_port \in DOMAIN listeners
          /\ listeners[tasks[id].remote_port].abort_handle = id

\* a listener bound for a remote port has been replaced by one on another
\* local port: both Started events wait in the event queue, one listener is
\* bound
C5_Witness ==
    \E rp \in RemotePorts :
       /\ Len(bgq) = 2
       /\ bgq[1] = MsgForwardEvent(EvStarted(rp, 1))
       /\ bgq[2] = MsgForwardEvent(EvStarted(rp, 8))
       /\ \E id \in DOMAIN tasks :
             /\ ListeningFor(rp) = {id}
             /\ tasks[id].bound = {8}

(***************************************************************************)
(* Properties of the discovery stream and of the end of the session        *)
(***************************************************************************)
\* the message a step appends to the event queue, if it appends one
Sent == IF Len(bgq') > 0 THEN bgq'[Len(bgq')] ELSE MsgTick
\* the messages the discovery loop sends
FromDiscovery(m) ==
    m.type \in {"ScanReceived", "DiscoveryWarning", "DiscoveryError", "StreamEnded"}

\* C7: the n-th read in a row that times out, counted since the last line
\* read, makes the stream emit the warning (n, MAX_CONSECUTIVE_TIMEOUTS) for
\* n = 1 and n = 2 and the terminal Timeout error for n = 3; the stream's
\* counter is the number of timed-out reads since the last line, so that a
\* line read resets it to 0.
C7_TimeoutEscalation ==
    /\ [](consecutive_timeouts = timeouts_in_a_row)
    /\ [][timeouts_in_a_row' = timeouts_in_a_row + 1 =>
            /\ bgq' = Append(bgq, Sent)
            /\ IF timeouts_in_a_row' < 3
               THEN /\ Sent = MsgDiscoveryWarning(
                                 [kind |-> "timeout", n |-> timeouts_in_a_row',
                                  max |-> 3])
                    /\ ~disc_done'
               ELSE /\ timeouts_in_a_row' = 3
                    /\ Sent = MsgDiscoveryError(
                                 [kind |-> "Timeout", consecutive |-> 3])
                    /\ disc_done']_vars

\* three reads in a row have timed out and ended the stream: the Timeout
\* error is the last message sent and the warning of the second timeout is
\* still queued before it
C7_Witness ==
    /\ disc_done
    /\ timeouts_in_a_row = 3
    /\ Len(bgq) = 2
    /\ bgq[1] = MsgDiscoveryWarning([kind |-> "timeout", n |-> 2, max |-> 3])
    /\ bgq[2] = MsgDiscoveryError([kind |-> "Timeout", consecutive |-> 3])

\* C8: every read that ends the stream (an undecodable line, an I/O error,
\* the end of the stream, the third timeout in a row) sends exactly one
\* DiscoveryError message and ends the discovery loop, which sends nothing
\* after it; the update that processes a DiscoveryError message sets the
\* connection state to disconnected, clears running and emits no command, and
\* once running is cleared the main loop takes no message and the model does
\* not change.
C8_FatalErrorEndsSession ==
    /\ [][/\ (\/ DiscoveryTurn({"bad_line", "eof", "io_error"})
              \/ timeouts_in_a_row = 2 /\ timeouts_in_a_row' = 3
              \/ ~disc_done /\ disc_done') =>
               /\ disc_done'
               /\ bgq' = Append(bgq, Sent)
               /\ Sent.type = "DiscoveryError"
          /\ disc_done =>
               \/ bgq' = bgq
               \/ bgq' = Tail(bgq)
               \/ bgq' = Append(bgq, Sent) /\ ~FromDiscovery(Sent)
          /\ (bgq # <<>> /\ Head(bgq).type = "DiscoveryError" /\ MainLoopBg) =>
               /\ connection_state' = Disconnected
               /\ ~running'
               /\ cmdq' = cmdq
          /\ ~running => UNCHANGED <<modelVars, saved, bgq, cmdq, iterations>>]_vars
    /\ [](\A i \in 1..Len(bgq) : \A j \in 1..Len(bgq) :
             (i < j /\ bgq[i].type = "DiscoveryError") => ~FromDiscovery(bgq[j]))

\* the main loop has processed the error of the discovery loop and left; a
\* tick sent before it left stays in the queue and the forward entries are as
\* they were
C8_Witness ==
    /\ disc_done
    /\ ~running /\ exited
    /\ connection_state = Disconnected
    /\ bgq # <<>>
    /\ forwards # <<>>
    /\ cmdq = <<>>

(***************************************************************************)
(* Properties of the listener tasks and of the forward events              *)
(***************************************************************************)
\* the step is the main loop processing forward event e
Processes(e) == bgq # <<>> /\ Head(bgq) = MsgForwardEvent(e) /\ MainLoopBg

\* C11 as the specification states it: a listener task whose bind fails
\* sends BindError{remote_port, message}, ends, and sends no Started; the
\* update that processes a BindError removes the entry of that remote port
\* and opens the port input for it with the local port of the failed attempt
\* in the buffer and the message as the error.
C11_BindErrorReopensModal ==
    [][/\ TaskBindError =>
            \E id \in DOMAIN tasks :
               /\ tasks[id].state = "spawned"
               /\ id \notin DOMAIN tasks'
               /\ bgq' = Append(bgq, MsgForwardEvent(
                            EvBindError(tasks[id].remote_port,
                                        BindFailure(tasks[id].local_port))))
       /\ \A rp \in RemotePorts, lp \in LocalPorts \cup EphemeralPorts \cup {0} :
            Processes(EvBindError(rp, BindFailure(lp))) =>
               /\ rp \notin DOMAIN forwards'
               /\ modal' = PortInput(rp, FormatPort(lp),
                                      IF hostname = NoneOpt THEN Destination
                                      ELSE The(hostname),
                                      Some(BindFailure(lp)))]_vars

\* C11: a listener task whose bind fails sends BindError{remote_port,
\* message}, ends, and sends no Started; the update that processes a
\* BindError removes the entry of that remote port and opens the port input
\* for it with the message as the error and, in the buffer, the local port
\* the model's entry stores when the event is processed, or the remote port
\* when the model has no entry for it. That is the port of the failed attempt
\* unless the entry was removed or created anew while the event was in flight.
C11_BindErrorOpensModalWithEntryPort ==
    [][/\ TaskBindError =>
            \E id \in DOMAIN tasks :
               /\ tasks[id].state = "spawned"
               /\ id \notin DOMAIN tasks'
               /\ bgq' = Append(bgq, MsgForwardEvent(
                            EvBindError(tasks[id].remote_port,
                                        BindFailure(tasks[id].local_port))))
       /\ \A rp \in RemotePorts, lp \in LocalPorts \cup EphemeralPorts \cup {0} :
            Processes(EvBindError(rp, BindFailure(lp))) =>
               /\ rp \notin DOMAIN forwards'
               /\ modal' = PortInput(rp,
                                      FormatPort(IF rp \in DOMAIN forwards
                                                 THEN forwards[rp].local_port
                                                 ELSE rp),
                                      IF hostname = NoneOpt THEN Destination
                                      ELSE The(hostname),
                                      Some(BindFailure(lp)))]_vars

\* the bind of the persisted forward 1 -> 3 has failed and the port input is
\* open for remote port 1 with 3 in the buffer
C11_Witness ==
    /\ modal = PortInput(1, <<3>>, "h", Some(BindFailure(3)))
    /\ 1 \notin DOMAIN forwards
    /\ \A id \in DOMAIN tasks : tasks[id].remote_port # 1

\* the listener task id binds in this step, on local port l
Binds(id, l) ==
    /\ id \in DOMAIN tasks /\ tasks[id].state = "spawned"
    /\ id \in DOMAIN tasks' /\ tasks'[id].state = "listening"
    /\ tasks'[id].bound = {l}

\* C12 as the specification states it: when the listener of a remote port was
\* bound on local port L at the time the manager paused it, the listener a
\* later Reactivate spawns for that remote port binds on L, whatever local
\* port was requested, 0 included.
C12_ReactivateBindsSamePort ==
    [][\A id \in DOMAIN tasks, l \in LocalPorts \cup EphemeralPorts :
          (Binds(id, l) /\ paused_on[tasks[id].remote_port] # NoneOpt)
             => paused_on[tasks[id].remote_port] = {l}]_vars

\* the fault is confined to the requests for port 0: for any other requested
\* port the reactivated listener binds on the port it was paused on
ReactivateBindsSamePortUnlessZero ==
    [][\A id \in DOMAIN tasks, l \in LocalPorts \cup EphemeralPorts :
          (Binds(id, l) /\ paused_on[tasks[id].remote_port] # NoneOpt
             /\ tasks[id].local_port # 0)
             => paused_on[tasks[id].remote_port] = {l}]_vars

\* C13: until the first scan is processed the forward entries are the
\* persisted forwards, each paused with its persisted local port and no
\* connection, and the manager has no mapping and no command; a scan that
\* lists the remote port of a paused entry emits Reactivate with the entry's
\* local port; the manager, handling a Reactivate for a remote port it has no
\* mapping for, spawns the listener for the local port supplied and keeps
\* that port in the mapping; and a listener asked for a port other than 0
\* binds that port and reports it.
C13_PersistedForwardReactivated ==
    /\ [](connection_state = Connecting =>
            /\ DOMAIN forwards = {pf.remote_port : pf \in saved}
            /\ \A pf \in saved :
                  forwards[pf.remote_port] =
                     [local_port |-> pf.local_port, status |-> Paused,
                      active_connections |-> 0]
            /\ listeners = <<>>
            /\ cmdq = <<>>)
    /\ [][/\ \A scan \in UpdateScans, rp \in DOMAIN forwards :
               (/\ UpdateScanReceived(scan)
                /\ forwards[rp].status = Paused
                /\ rp \in ListedPorts(scan))
                  => \E i \in 1..Len(Emitted) :
                        Emitted[i] = Reactivate(rp, forwards[rp].local_port,
                                                scan.hostname)
          /\ (/\ cmdq # <<>>
              /\ Head(cmdq).type = "Reactivate"
              /\ Head(cmdq).remote_port \notin DOMAIN listeners
              /\ ForwardManagerRun)
               => /\ listeners'[Head(cmdq).remote_port].local_port =
                        Head(cmdq).local_port
                  /\ \E id \in DOMAIN tasks' \ DOMAIN tasks :
                        /\ tasks'[id].remote_port = Head(cmdq).remote_port
                        /\ tasks'[id].local_port = Head(cmdq).local_port
                        /\ tasks'[id].state = "spawned"
          /\ \A id \in DOMAIN tasks, l \in LocalPorts \cup EphemeralPorts :
               (Binds(id, l) /\ tasks[id].local_port # 0)
                  => /\ l = tasks[id].local_port
                     /\ bgq' = Append(bgq, MsgForwardEvent(
                                  EvStarted(tasks[id].remote_port, l)))]_vars

\* the persisted forward 1 -> 3 has been reactivated by a scan: its listener
\* is bound on local port 3 and the Started event has made the entry active
C13_Witness ==
    /\ 1 \in DOMAIN forwards
    /\ forwards[1] = ForwardEntry(3, Active, 0)
    /\ [remote_port |-> 1, local_port |-> 3] \in saved
    /\ 1 \in DOMAIN listeners
    /\ listeners[1].local_port = 3
    /\ \E id \in ListeningFor(1) : tasks[id].bound = {3}

\* C14: when the manager has handled Stop for a remote port it has no mapping
\* for the port, no listener task of the port (and so none of its tunnels) is
\* left, and it has sent one Stopped event for the port and nothing else,
\* whether or not it had a mapping; when update processes Stopped the model
\* has no entry for the port.
C14_StopRemovesForward ==
    [][\A rp \in RemotePorts :
         /\ (cmdq # <<>> /\ Head(cmdq) = Stop(rp) /\ ForwardManagerRun)
               => /\ rp \notin DOMAIN listeners'
                  /\ \A id \in DOMAIN tasks' : tasks'[id].remote_port # rp
                  /\ bgq' = Append(bgq, MsgForwardEvent(EvStopped(rp)))
         /\ Processes(EvStopped(rp)) => rp \notin DOMAIN forwards']_vars

\* two Stop commands for port 1 have been handled in a row, the second without
\* a mapping, and each has sent its Stopped event
C14_Witness ==
    /\ bgq = <<MsgForwardEvent(EvStopped(1)), MsgForwardEvent(EvStopped(1))>>
    /\ 1 \notin DOMAIN listeners
    /\ \A id \in DOMAIN tasks : tasks[id].remote_port # 1
    /\ 1 \in DOMAIN forwards

\* the listener task id is polled for the first time in this step: it was
\* spawned, and the step, which is not the manager's, leaves it listening or
\* ended
FirstPoll(id) ==
    /\ id \in DOMAIN tasks /\ tasks[id].state = "spawned"
    /\ cmdq' = cmdq
    /\ id \notin DOMAIN tasks' \/ tasks'[id].state = "listening"

\* the step sends exactly the forward event e
SendsOnly(e) == bgq' = Append(bgq, MsgForwardEvent(e))

\* C15: the first poll of a listener task sends exactly one event, Started
\* with the local port the task has bound or BindError with the task ended,
\* for the task's remote port; no other step sends Started or BindError, and a
\* listening task is not polled for the first time again; when update
\* processes Started the entry of the remote port, if there is one, has the
\* reported local port and is active, and no entry is created.
C15_StartedOrBindError ==
    [][/\ \A id \in DOMAIN tasks :
            FirstPoll(id) =>
               \/ /\ id \in DOMAIN tasks'
                  /\ \E l \in tasks'[id].bound :
                        SendsOnly(EvStarted(tasks[id].remote_port, l))
               \/ /\ id \notin DOMAIN tasks'
                  /\ SendsOnly(EvBindError(tasks[id].remote_port,
                                           BindFailure(tasks[id].local_port)))
       /\ (/\ Len(bgq') = Len(bgq) + 1
           /\ bgq'[Len(bgq')].type = "ForwardEvent"
           /\ bgq'[Len(bgq')].event.type \in {"Started", "BindError"})
            => \E id \in DOMAIN tasks :
                  /\ FirstPoll(id)
                  /\ tasks[id].remote_port = bgq'[Len(bgq')].event.remote_port
       /\ \A id \in DOMAIN tasks \cap DOMAIN tasks' :
            tasks[id].state = "listening" => tasks'[id].state = "listening"
       /\ \A rp \in RemotePorts, l \in LocalPorts \cup EphemeralPorts :
            Processes(EvStarted(rp, l)) =>
               /\ DOMAIN forwards' = DOMAIN forwards
               /\ rp \in DOMAIN forwards =>
                     /\ forwards'[rp].local_port = l
                     /\ forwards'[rp].status = Active]_vars

\* the persisted forward 1 -> 3 was started on the ephemeral port: the
\* listener has bound 8, and the entry has taken that port from Started
C15_Witness ==
    /\ 1 \in DOMAIN forwards
    /\ forwards[1].local_port = 8
    /\ forwards[1].status = Active
    /\ \E id \in ListeningFor(1) : tasks[id].bound = {8} /\ tasks[id].local_port = 0

\* q2 is q1 with elements added at its end
Extends(q2, q1) == Len(q2) > Len(q1) /\ SubSeq(q2, 1, Len(q1)) = q1

\* C16: while the session runs, the command queue changes only when the main
\* loop adds the commands of one update at its end or when the manager takes
\* the oldest command and applies that one; the manager's mappings change
\* only in such a step; the background queue changes only when a message is
\* added at its end or when the main loop takes the oldest message and applies
\* update to that one, and the model's forward entries change only in a step
\* of the main loop. So the commands of a remote port are applied, and the
\* events processed, in the order queued, each once.
C16_QueuesInOrder ==
    [][/\ cmdq' # cmdq =>
            \/ /\ Extends(cmdq', cmdq)
               /\ iterations' # iterations
               /\ UNCHANGED <<listeners, tasks>>
            \/ /\ cmdq # <<>>
               /\ cmdq' = Tail(cmdq)
               /\ HandleCommand(Head(cmdq))
               /\ UNCHANGED <<forwards, modal, iterations>>
       /\ listeners' # listeners => cmdq # <<>> /\ cmdq' = Tail(cmdq)
       /\ bgq' # bgq =>
            \/ /\ Extends(bgq', bgq)
               /\ Len(bgq') = Len(bgq) + 1
               /\ UNCHANGED <<forwards, modal, iterations>>
            \/ /\ bgq # <<>>
               /\ bgq' = Tail(bgq)
               /\ Update(Head(bgq))
               /\ UNCHANGED <<listeners, tasks>>
       /\ forwards' # forwards => iterations' # iterations]_vars

\* two different commands wait for the manager while two different forward
\* events wait for the main loop
C16_Witness ==
    /\ Len(cmdq) = 2 /\ cmdq[1] # cmdq[2]
    /\ cmdq[1].remote_port = cmdq[2].remote_port
    /\ Len(bgq) = 2 /\ bgq[1] # bgq[2]
    /\ bgq[1].type = "ForwardEvent" /\ bgq[2].type = "ForwardEvent"
    /\ bgq[1].event.remote_port = bgq[2].event.remote_port

\* the functions deploy_and_spawn calls, in the order of a run that uploads
DeployOrder ==
    <<"detect_platform", "resolve_agent_binary", "remote_hash", "upload",
      "kill_stale_agent", "spawn_agent">>

\* the order of a run that skips the upload
DeployOrderNoUpload ==
    <<"detect_platform", "resolve_agent_binary", "remote_hash",
      "kill_stale_agent", "spawn_agent">>

IsPrefix(s, t) == Len(s) <= Len(t) /\ SubSeq(t, 1, Len(s)) = s

\* fn is in the calls made so far
WasCalled(fn) == \E i \in 1..Len(deploy.trace) : deploy.trace[i] = fn

\* C17: the functions deploy_and_spawn has called are, in this order, the
\* platform probe, the binary resolution, the hash check, the upload or not,
\* kill-stale and the spawn; when the probe, the binary resolution or the
\* upload fails, deploy_and_spawn returns that error, and has called neither
\* kill-stale nor the spawn; whatever the replies to the commands of
\* kill-stale, the spawn is the next call; and nothing is called after the
\* return.
C17_DeployOrder ==
    /\ [](IsPrefix(deploy.trace, DeployOrder)
            \/ IsPrefix(deploy.trace, DeployOrderNoUpload))
    /\ [][/\ \A reply \in UnameReplies :
               (DeployDetectPlatform(reply) /\ ~detect_platform(reply).ok)
                  => /\ deploy'.result = Some(detect_platform(reply))
                     /\ deploy'.pc = "returned"
                     /\ deploy'.trace = <<"detect_platform">>
          /\ \A local \in LocalFiles :
               (DeployResolveAgentBinary(local) /\ ~resolve_agent_binary(local).ok)
                  => /\ deploy'.result = Some(resolve_agent_binary(local))
                     /\ deploy'.pc = "returned"
                     /\ deploy'.trace = <<"detect_platform", "resolve_agent_binary">>
          /\ \A mkdir \in PlainReplies, cat \in PlainReplies, mv \in PlainReplies :
               (/\ DeployUpload(mkdir, cat, mv)
                /\ \/ ExecError \in {mkdir, cat, mv}
                   \/ ~mv.success)
                  => /\ deploy'.result # NoneOpt
                     /\ ~The(deploy'.result).ok
                     /\ deploy'.pc = "returned"
                     /\ deploy'.trace = SubSeq(DeployOrder, 1, 4)
          /\ \A pid_reply \in PidReplies, comm_reply \in CommReplies :
               DeployKillStaleAgent(pid_reply, comm_reply)
                  => /\ deploy'.pc = "spawn_agent"
                     /\ deploy'.result = NoneOpt
          /\ deploy.pc = "spawn_agent" => deploy'.trace = Append(deploy.trace, "spawn_agent")
          /\ deploy.pc = "returned" => deploy' = deploy]_vars

\* a run of all six functions in which kill-stale could not read the pid file
\* and the agent was spawned all the same
C17_Witness ==
    /\ deploy.trace = DeployOrder
    /\ deploy.pc = "returned"
    /\ deploy.result = Some(Ok("stream"))
    /\ \A i \in 1..Len(deploy.execs) : deploy.execs[i].cmd \notin {"comm", "kill"}

\* the tokens of the output that are 64 hexadecimal digits
HashesIn(stdout) ==
    {t \in Range(SplitWhitespace(stdout)) :
        Len(t) = 64 /\ \A i \in 1..64 : t[i] \in HexDigits}

\* the remote hash cannot be read: the command failed, ended with a status
\* other than 0, or printed no token of 64 hexadecimal digits
HashUnreadable(reply) ==
    \/ reply.kind = "error"
    \/ ~reply.success
    \/ HashesIn(reply.stdout) = {}

\* C18: after the hash check the upload is the next call iff the remote hash
\* cannot be read or the hash read differs from the SHA-256, in lower-case
\* hexadecimal, of the bytes to deploy; otherwise, the hashes being equal,
\* kill-stale is the next call; and the upload is called only after such a
\* check.
C18_UploadIffHashDiffers ==
    /\ [][deploy.pc = "remote_hash" =>
            \A reply \in HashReplies(RemotePath(The(deploy.platform))) :
               DeployRemoteHash(reply) =>
                  LET differs ==
                         \/ HashUnreadable(reply)
                         \/ HashesIn(reply.stdout)
                               # {sha256_hex(The(deploy.agent_bytes))}
                  IN /\ deploy'.pc = "upload" <=> differs
                     /\ deploy'.pc = "kill_stale_agent" <=> ~differs
                     /\ deploy'.needs_upload <=> differs]_vars
    /\ [](WasCalled("upload") <=>
             (deploy.needs_upload /\ deploy.pc \notin {"remote_hash", "upload"}))
    /\ [](deploy.pc = "upload" => deploy.needs_upload)

\* the remote file has the hash of the bytes to deploy: the upload is skipped
C18_Witness ==
    /\ deploy.trace = SubSeq(DeployOrderNoUpload, 1, 4)
    /\ ~deploy.needs_upload
    /\ ~WasCalled("upload")

\* the contents of the pid file, trimmed, that are a pid in decimal
DecimalPids == {<<"1", "2", "3">>, <<"+", "1", "2">>, <<"0", "0", "7">>, <<"4", "2", "9", "4", "9", "6", "7", "2", "9", "5">>}

\* the commands issued by the last call
LastExecs == SubSeq(deploy'.execs, Len(deploy.execs) + 1, Len(deploy'.execs))

\* C19: kill-stale issues a kill iff the pid file could be read (the command
\* ran and ended with status 0), its content without the surrounding white
\* space is a pid in decimal, and the command that reads the command name of
\* that pid ran and printed sshfwd-agent; the kill is then the last command
\* of kill-stale, issued once, for the content of the pid file.
C19_KillOnlyVerifiedAgent ==
    [][\A pid_reply \in PidReplies, comm_reply \in CommReplies :
          DeployKillStaleAgent(pid_reply, comm_reply) =>
             LET verified ==
                    /\ pid_reply.kind = "output" /\ pid_reply.success
                    /\ Trim(pid_reply.stdout) \in DecimalPids
                    /\ comm_reply.kind = "output"
                    /\ Trim(comm_reply.stdout) = REMOTE_AGENT_NAME
                 kills == {i \in 1..Len(LastExecs) : LastExecs[i].cmd = "kill"}
             IN /\ kills # {} <=> verified
                /\ verified =>
                      /\ kills = {Len(LastExecs)}
                      /\ LastExecs[Len(LastExecs)].arg = Trim(pid_reply.stdout)
                      /\ LastExecs[Len(LastExecs) - 1].cmd = "comm"]_vars

\* kill-stale has killed the process 123, whose command name was verified
C19_Witness ==
    \E i \in 2..Len(deploy.execs) :
       /\ deploy.execs[i] = Exec("kill", <<"1", "2", "3">>)
       /\ deploy.execs[i - 1] = Exec("comm", <<"1", "2", "3">>)

\* the methods in the order of the specification: the identities of the
\* ssh-agent, the IdentityFile directives as configured, then id_ed25519,
\* id_rsa and id_ecdsa
AuthPlan ==
    [i \in DOMAIN auth.identities |-> AgentKey(auth.identities[i])]
    \o [i \in DOMAIN auth.identity_files |-> KeyFile(auth.identity_files[i])]
    \o <<KeyFile("~/.ssh/id_ed25519"), KeyFile("~/.ssh/id_rsa"),
         KeyFile("~/.ssh/id_ecdsa")>>

\* C20: the methods authenticate has tried are the first ones of the list of
\* the ssh-agent's identities, then the IdentityFile directives in their
\* order, then id_ed25519, id_rsa and id_ecdsa; the keys sent to the server
\* are among them; a method that succeeds ends authenticate, Session::connect
\* returns the session and nothing is tried afterwards; a method that does not
\* succeed is followed by the next one, and after the last one
\* Session::connect returns the Auth error, which it returns only when every
\* method has been tried.
C20_AuthenticationOrder ==
    /\ [](auth.pc # "connect" =>
            /\ IsPrefix(auth.attempts, AuthPlan)
            /\ Range(auth.requests) \subseteq Range(auth.attempts)
            /\ auth.result = Some(Err("Auth")) => auth.attempts = AuthPlan
            /\ auth.result = NoneOpt <=> auth.pc # "returned"
            /\ (auth.pc = "returned" /\ auth.attempts = AuthPlan
                  /\ auth.requests = <<>>) => auth.result = Some(Err("Auth")))
    /\ [][/\ \A outcome \in FileOutcomes :
               (AuthAgentKey(outcome) \/ AuthKeyFile(outcome)) =>
                  /\ auth'.attempts = Append(auth.attempts, Head(auth.queue))
                  /\ outcome = "success" =>
                        /\ auth'.pc = "returned"
                        /\ auth'.result = Some(Ok("session"))
                        /\ auth'.requests = Append(auth.requests, Head(auth.queue))
                  /\ outcome # "success" =>
                        /\ auth'.result # Some(Ok("session"))
                        /\ auth'.result = Some(Err("Auth")) <=> auth'.attempts = AuthPlan
                        /\ auth'.result = NoneOpt =>
                              Head(auth'.queue) = AuthPlan[Len(auth'.attempts) + 1]
          /\ auth.pc = "returned" => auth' = auth]_vars

\* the key of the ssh-agent was refused and the first IdentityFile accepted:
\* the second IdentityFile and the default keys are not tried
C20_Witness ==
    /\ auth.identity_files = <<"~/.ssh/work", "~/.ssh/id_rsa">>
    /\ auth.attempts = <<AgentKey("agent-1"), KeyFile("~/.ssh/work")>>
    /\ auth.requests = auth.attempts
    /\ auth.pc = "returned"
    /\ auth.result = Some(Ok("session"))
(***************************************************************************)
(* C21: which Host blocks of ~/.ssh/config a resolved field comes from     *)
(***************************************************************************)
\* the directives of a text, in file order
Directives(text) ==
    LET lines == Lines(text)
        kept == {i \in 1..Len(lines) : Directive(lines[i]) # NoneOpt}
        RECURSIVE Collect(_)
        Collect(i) ==
            IF i > Len(lines) THEN <<>>
            ELSE (IF i \in kept THEN <<The(Directive(lines[i]))>> ELSE <<>>)
                 \o Collect(i + 1)
    IN Collect(1)

IsKey(d, key) == EqIgnoreAsciiCase(d.key, key)
IsBlockHeader(d) == IsKey(d, <<"H", "o", "s", "t">>) \/ IsKey(d, <<"M", "a", "t", "c", "h">>)
\* the Host lines of ds with a pattern that matches host
MatchingHeaders(ds, host) ==
    {j \in 1..Len(ds) : IsKey(ds[j], <<"H", "o", "s", "t">>) /\ HostLineMatches(ds[j].value, host)}
\* the header of the block directive i is in, or 0 before the first header
HeaderOf(ds, i) ==
    LET before == {j \in 1..i : IsBlockHeader(ds[j])}
    IN IF before = {} THEN 0 ELSE CHOOSE j \in before : \A k \in before : k <= j
\* the directives inside the blocks with the given headers
InBlocks(ds, headers) ==
    {i \in 1..Len(ds) : ~IsBlockHeader(ds[i]) /\ HeaderOf(ds, i) \in headers}

\* the values of key among the directives of the set where, in file order
ValuesOf(ds, where, key) ==
    LET RECURSIVE Collect(_)
        Collect(i) ==
            IF i > Len(ds) THEN <<>>
            ELSE (IF i \in where /\ IsKey(ds[i], key) THEN <<ds[i].value>> ELSE <<>>)
                 \o Collect(i + 1)
    IN Collect(1)

FirstOf(values) == IF values = <<>> THEN NoneOpt ELSE Some(Head(values))

\* the fields resolved from the directives of the set where: the first value of
\* HostName and of User, the first Port that is a port number, the first
\* ProxyJump unless it is none, every IdentityFile
ResolvedFrom(ds, where, home) ==
    LET port_values == ValuesOf(ds, where, <<"P", "o", "r", "t">>)
        numbers == {i \in 1..Len(port_values) : ParseU16Text(port_values[i]) # NoneOpt}
        jump == FirstOf(ValuesOf(ds, where, <<"P", "r", "o", "x", "y", "J", "u", "m", "p">>))
        files == ValuesOf(ds, where, <<"I", "d", "e", "n", "t", "i", "t", "y", "F", "i", "l", "e">>)
    IN SshHostConfig(
           FirstOf(ValuesOf(ds, where, <<"H", "o", "s", "t", "N", "a", "m", "e">>)),
           IF numbers = {} THEN NoneOpt
           ELSE ParseU16Text(port_values[CHOOSE i \in numbers : \A j \in numbers : i <= j]),
           FirstOf(ValuesOf(ds, where, <<"U", "s", "e", "r">>)),
           IF jump # NoneOpt /\ EqIgnoreAsciiCase(The(jump), <<"n", "o", "n", "e">>) THEN NoneOpt
           ELSE jump,
           [i \in 1..Len(files) |-> ExpandHome(files[i], home)])

ConfigWasRead ==
    /\ call.fn = "parse_ssh_host_config"
    /\ call.args.home # NoneOpt
    /\ call.args.file.ok

\* the headers of the first block that matches the host of the call
FirstMatchingHeader(ds) ==
    LET headers == MatchingHeaders(ds, call.args.host)
    IN IF headers = {} THEN {} ELSE {CHOOSE j \in headers : \A k \in headers : j <= k}

\* C21 as stated: the fields parse_ssh_host_config resolves are the ones of the
\* first Host block whose patterns match the host, and the directives of the
\* matching blocks after it contribute nothing.
C21_FirstMatchingBlockOnly ==
    ConfigWasRead =>
        LET ds == Directives(call.args.file.value)
        IN call.result = ResolvedFrom(ds, InBlocks(ds, FirstMatchingHeader(ds)),
                                      The(call.args.home))

\* C21: the fields parse_ssh_host_config resolves are the ones of all the Host
\* blocks whose patterns match the host, taken together in file order: each of
\* HostName, User, Port and ProxyJump is the first value given in any of these
\* blocks, and the IdentityFile list holds the entries of all of them. Without
\* HOME or without a readable file every field is unset.
C21_AllMatchingBlocks ==
    /\ ConfigWasRead =>
          LET ds == Directives(call.args.file.value)
          IN call.result =
                 ResolvedFrom(ds, InBlocks(ds, MatchingHeaders(ds, call.args.host)),
                              The(call.args.home))
    /\ call.fn = "parse_ssh_host_config" /\ ~ConfigWasRead =>
          call.result = SshHostConfig(NoneOpt, NoneOpt, NoneOpt, NoneOpt, <<>>)

\* two blocks match, the first gives the user, the second the host name and
\* one more identity file
C21_Witness ==
    /\ ConfigWasRead
    /\ LET ds == Directives(call.args.file.value)
           first == InBlocks(ds, FirstMatchingHeader(ds))
       IN /\ Cardinality(MatchingHeaders(ds, call.args.host)) = 2
          /\ ValuesOf(ds, first, <<"U", "s", "e", "r">>) # <<>>
          /\ ValuesOf(ds, first, <<"H", "o", "s", "t", "N", "a", "m", "e">>) = <<>>
          /\ call.result.user # NoneOpt
          /\ call.result.hostname # NoneOpt

(***************************************************************************)
(* C24: the lines of /proc/net/tcp that parse_proc_net_tcp turns into      *)
(* records                                                                 *)
(***************************************************************************)
\* a text of exactly n hexadecimal digits
IsHexOfLength(s, n) == Len(s) = n /\ \A i \in 1..Len(s) : s[i] \in HexDigits

\* the line has 12 fields or more, the state 0A, a local address of as many
\* hexadecimal digits as the protocol has nibbles, a port in hexadecimal, and
\* a uid and an inode in decimal
IsListenLine(line, protocol) ==
    LET fields == SplitWhitespace(line)
        parts == SplitOnce(fields[2], {":"})
    IN /\ Len(fields) >= 12
       /\ fields[4] = LISTEN_STATE
       /\ parts # NoneOpt
       /\ IsHexOfLength(The(parts)[1], IF protocol = Tcp THEN 8 ELSE 32)
       /\ FromStrRadix16(The(parts)[2], 4) # NoneOpt
       /\ ParseU32(fields[8]) # NoneOpt
       /\ ParseU64(fields[10]) # NoneOpt

\* the records of the lines of the text after the first that are such lines,
\* in the order of the text
ListenRecords(content, protocol) ==
    LET lines == Lines(content)
        RECURSIVE Collect(_)
        Collect(i) ==
            IF i > Len(lines) THEN <<>>
            ELSE (IF IsListenLine(lines[i], protocol)
                  THEN <<The(ParseLine(lines[i], protocol).value)>> ELSE <<>>)
                 \o Collect(i + 1)
    IN Collect(2)

\* C24 as stated: parse_proc_net_tcp never aborts and returns, in input order,
\* exactly one record for each line after the header that has 12 fields or
\* more, the state 0A, a well-formed hexadecimal address of the protocol's
\* length with a port, and a decimal uid and inode; no other line yields a
\* record, and a text with the header alone or with nothing yields no record.
C24_OneRecordPerListenLine ==
    call.fn = "parse_proc_net_tcp" =>
        call.result = Returned(ListenRecords(call.args.content, call.args.protocol))

\* the text has no sign and no character of more than one byte
PlainText(content) ==
    \A i \in 1..Len(content) : content[i] # "+" /\ content[i] \notin WideChars

\* on the texts without a sign and without a character of more than one byte
\* the function returns these records
OneRecordPerListenLineOfPlainText ==
    call.fn = "parse_proc_net_tcp" /\ PlainText(call.args.content) =>
        call.result = Returned(ListenRecords(call.args.content, call.args.protocol))

\* the function panics on a line of /proc/net/tcp6
ParsePanics == call.fn = "parse_proc_net_tcp" /\ call.result.panicked

\* the function returns a record for a line whose address has a sign
RecordOfSignedAddress ==
    /\ call.fn = "parse_proc_net_tcp"
    /\ ~call.result.panicked
    /\ Len(call.result.value) >
           Len(ListenRecords(call.args.content, call.args.protocol))

(***************************************************************************)
(* C25: dedup_entries keeps the first entry of each (port, address) key    *)
(***************************************************************************)
\* the address without a leading ::ffff:
WithoutMappedPrefix(addr) ==
    IF Len(addr) >= 7 /\ SubSeq(addr, 1, 7) = <<":", ":", "f", "f", "f", "f", ":">> THEN SubSeq(addr, 8, Len(addr))
    ELSE addr
SameKey(a, b) ==
    a.port = b.port /\ WithoutMappedPrefix(a.local_addr) = WithoutMappedPrefix(b.local_addr)
\* the first entry of the list with the key of e
FirstOfKey(entries, e) ==
    entries[CHOOSE i \in 1..Len(entries) :
                /\ SameKey(entries[i], e)
                /\ \A j \in 1..(i - 1) : ~SameKey(entries[j], e)]

\* C25: dedup_entries returns exactly one entry for each distinct key (port,
\* address without a leading ::ffff:) of its input, and that entry is the first
\* one of the key in input order; entries of distinct keys, such as 0.0.0.0 and
\* :: on one port, are all kept.
C25_FirstOccurrencePerKey ==
    call.fn = "dedup_entries" =>
        LET entries == call.args.entries
            result == call.result
        IN /\ \A i \in 1..Len(result) :
                 /\ \E k \in 1..Len(entries) : entries[k] = result[i]
                 /\ result[i] = FirstOfKey(entries, result[i])
                 /\ \A j \in 1..Len(result) : SameKey(result[i], result[j]) => i = j
           /\ \A k \in 1..Len(entries) :
                 \E i \in 1..Len(result) : SameKey(result[i], entries[k])

\* the IPv4-mapped entry comes first and is the one kept for its key, before
\* the IPv4 entry of the same port; an entry of another key is kept too
C25_Witness ==
    /\ call.fn = "dedup_entries"
    /\ Len(call.args.entries) = 3
    /\ Len(call.result) = 2
    /\ StartsWith(call.args.entries[1].local_addr, <<":", ":", "f", "f", "f", "f", ":">>)
    /\ SameKey(call.args.entries[1], call.args.entries[2])
    /\ call.args.entries[1] # call.args.entries[2]
    /\ \E i \in 1..2 : call.result[i] = call.args.entries[1]
    /\ \E i \in 1..2 : call.result[i] = call.args.entries[3]
    /\ call.args.entries[3].port = call.args.entries[1].port

(***************************************************************************)
(* C22, C23: the lines of the agent process                                *)
(***************************************************************************)
\* the lines of the agent that carry a scan
OkLines == {i \in 1..Len(agent.lines) : agent.lines[i].status = "ok"}

\* C22: within one agent process the scan records written carry scan_index 0,
\* 1, 2, ... in the order they are written: one more for each scan that
\* succeeds, none taken by a scan that fails; an agent process that has just
\* started is at 0 again.
C22_ScanIndexCountsScans ==
    /\ \A i \in OkLines :
          agent.lines[i].scan.scan_index = Cardinality({j \in OkLines : j < i})
    /\ agent.pc = "main" => agent.scan_index = 0 /\ agent.lines = <<>>

\* the second agent process has written the records 0 and 1 around an error
\* record
C22_Witness ==
    /\ agent.runs = 1
    /\ Len(agent.lines) = 3
    /\ agent.lines[1].status = "ok" /\ agent.lines[1].scan.scan_index = 0
    /\ agent.lines[2].status = "error"
    /\ agent.lines[3].status = "ok" /\ agent.lines[3].scan.scan_index = 1

\* C23: an iteration of the agent's loop writes exactly one line, a scan
\* record or an error record (the line is on stdout if the write succeeds);
\* with --once the process writes exactly one line and ends; without it the
\* process ends after an iteration exactly if the write or the flush of that
\* iteration failed; a process that has ended writes nothing more, so no line
\* follows a failed write.
C23_OneLinePerIteration ==
    /\ [][/\ agent.pc = "loop" /\ agent'.iterations = agent.iterations + 1 =>
               /\ agent'.writes = agent.writes + 1
               /\ \/ agent'.failure = "write" /\ agent'.lines = agent.lines
                  \/ /\ agent'.failure # "write"
                     /\ Len(agent'.lines) = Len(agent.lines) + 1
                     /\ SubSeq(agent'.lines, 1, Len(agent.lines)) = agent.lines
                     /\ agent'.lines[Len(agent'.lines)].status \in {"ok", "error"}
               /\ agent'.pc = "exited" <=>
                     (agent.once \/ agent'.failure \in {"write", "flush"})
               /\ agent'.pc # "exited" => agent'.pc = "loop"
          /\ agent.pc = "exited" /\ agent'.runs = agent.runs =>
               agent'.lines = agent.lines /\ agent'.writes = agent.writes]_vars
    /\ [](agent.pc # "main" => agent.writes = agent.iterations
                                \/ (agent.iterations = 0 /\ agent.lines = <<VersionLine>>))
    /\ [](agent.once /\ agent.pc = "exited" =>
             agent.iterations = 1 /\ agent.writes = 1)

\* without --once the process has ended on a flush that failed, after its
\* second line
C23_Witness ==
    /\ agent.pc = "exited"
    /\ ~agent.once
    /\ agent.failure = "flush"
    /\ agent.iterations = 2
    /\ Len(agent.lines) = 2

(***************************************************************************)
(* C26: the port list of the model after a scan of the agent               *)
(***************************************************************************)
\* a and b hold the same elements, each as many times
IsPermutation(a, b) ==
    /\ Len(a) = Len(b)
    /\ \A x \in Range(a) \cup Range(b) :
          Cardinality({i \in 1..Len(a) : a[i] = x})
            = Cardinality({i \in 1..Len(b) : b[i] = x})
\* the key of the order: port, pid with an absent process counted as 0,
\* protocol with tcp before tcp6
SortKey(p) ==
    <<p.port, IF p.process = NoneOpt THEN 0 ELSE The(p.process),
      IF p.protocol = Tcp THEN 0 ELSE 1>>
KeyLeq(k, l) ==
    \/ k[1] < l[1]
    \/ k[1] = l[1] /\ k[2] < l[2]
    \/ k[1] = l[1] /\ k[2] = l[2] /\ k[3] <= l[3]
IsSortedByKey(s) ==
    \A i \in 1..Len(s), j \in 1..Len(s) : i < j => KeyLeq(SortKey(s[i]), SortKey(s[j]))
\* the main loop takes a ScanReceived from the background channel
TakesScanReceived ==
    /\ bgq # <<>> /\ Head(bgq).type = "ScanReceived"
    /\ bgq' = Tail(bgq) /\ iterations' # iterations

\* C26: after the main loop has processed a ScanReceived that the discovery
\* loop read from the agent, the port list of the model is a permutation of
\* the ports of that scan, sorted ascending by (port, pid with an absent
\* process counted as 0, protocol with tcp before tcp6), and no two of its
\* entries have the same port and the same address once a leading ::ffff: is
\* removed.
C26_PortListSortedAndUnique ==
    [][TakesScanReceived =>
         /\ IsPermutation(ports', Head(bgq).scan.ports)
         /\ IsSortedByKey(ports')
         /\ \A i \in 1..Len(ports'), j \in 1..Len(ports') :
               i # j => ~SameKey(ports'[i], ports'[j])]_vars

\* the agent wrote port 1337 before the two sockets of port 80, tcp6 first,
\* and dropped the IPv4-mapped socket of port 1337; the model lists port 80
\* first, tcp before tcp6
C26_Witness ==
    /\ Len(ports) = 3
    /\ ports[1].port = 80 /\ ports[1].protocol = Tcp
    /\ ports[2].port = 80 /\ ports[2].protocol = Tcp6
    /\ PidOf(ports[1]) = PidOf(ports[2])
    /\ ports[3].port = 1337 /\ ports[3].local_addr = <<"1", "2", "7", ".", "0", ".", "0", ".", "1">>
    /\ \E n \in 1..agent.taken :
          /\ agent.lines[n].status = "ok"
          /\ LET wire == agent.lines[n].scan.ports
             IN /\ Len(wire) = 3 /\ wire[1].port = 1337
                /\ wire[2].protocol = Tcp6 /\ wire[3].protocol = Tcp
                /\ IsPermutation(ports, wire)

(***************************************************************************)
(* C27: save_forwards and a load_forwards that follows it                   *)
(***************************************************************************)
\* the file holds a JSON object of arrays of persisted forwards
IsForwardsFile(file) ==
    file.kind = "json" /\ \A i \in 1..Len(file.doc) : file.doc[i].value.type = "array"
\* the file holds the key d
HasKey(file, d) == IsForwardsFile(file) /\ \E i \in 1..Len(file.doc) : file.doc[i].key = d
\* the list the file stores for d: the array of the last pair with the key
\* d, and no forward if the key or the file is missing or the file cannot be
\* parsed
StoredList(file, d) ==
    IF ~HasKey(file, d) THEN <<>>
    ELSE LET n == CHOOSE i \in 1..Len(file.doc) :
                     file.doc[i].key = d /\ \A j \in 1..Len(file.doc) :
                                               file.doc[j].key = d => j <= i
         IN file.doc[n].value.items

\* C27: a save_forwards(destination, list) that writes the file leaves the
\* list stored for every other destination as it was, stores exactly the
\* given list under the destination if the list is not empty and leaves the
\* file without the destination's key if it is empty; a load_forwards of the
\* destination that follows returns the saved list, which is the empty list
\* after a removal. A save_forwards whose write fails leaves the file as it
\* was.
C27_SaveThenLoad ==
    /\ [][store'.last.fn = "save_forwards" =>
            LET d == store'.last.destination
                saved_list == store'.last.forwards
            IN IF store'.last.written
               THEN /\ \A o \in PersistDestinations \ {d} :
                          StoredList(store'.file, o) = StoredList(store.file, o)
                    /\ IsForwardsFile(store'.file)
                    /\ StoredList(store'.file, d) = saved_list
                    /\ HasKey(store'.file, d) <=> saved_list # <<>>
               ELSE store'.file = store.file]_vars
    /\ [][/\ store.last.fn = "save_forwards" /\ store.last.written
          /\ store'.last.fn = "load_forwards"
          /\ store'.last.destination = store.last.destination
          => store'.last.result = store.last.forwards]_vars

\* the file held a list for the other destination and an older list for this
\* one; a list of two forwards was saved and loaded again, and the list of
\* the other destination is still stored
C27_Witness ==
    /\ store.last.fn = "load_forwards" /\ store.last.destination = Destination
    /\ store.last.result = <<PersistedForward(2, 2), PersistedForward(1, 1)>>
    /\ StoredList(store.file, "other") = <<PersistedForward(2, 8080)>>
    /\ Len(store.file.doc) = 2 /\ store.file.doc[1].key = "other"

\* a save of the empty list has removed the destination's key, the other
\* destination keeps its list, and the load that followed returned nothing
RemovedKeyLoadsEmpty ==
    /\ store.last.fn = "load_forwards" /\ store.last.destination = Destination
    /\ store.last.result = <<>>
    /\ store.file = JsonFile(<<Pair("other", JsonArray(<<PersistedForward(1, 1)>>))>>)

(***************************************************************************)
(* C28: the buffer of the port input and its confirmation                  *)
(***************************************************************************)
\* the number a buffer of digits writes, most significant digit first
RECURSIVE TypedNumber(_)
TypedNumber(buf) ==
    IF buf = <<>> THEN 0 ELSE TypedNumber(SubSeq(buf, 1, Len(buf) - 1)) * 10 + buf[Len(buf)]
\* the buffer is a port in 1..=65535
IsTypedPort(buf) == buf # <<>> /\ TypedNumber(buf) \in 1..65535

\* C28: while the port input is open its buffer holds decimal digits only,
\* five at most. On Enter, a buffer that parses to a port in 1..=65535 makes
\* the entry of the modal's remote port (typed port, starting, no
\* connection); a Start with the typed port and the modal's remote host is
\* emitted, after a Stop of the remote port if the port had an entry; any
\* other buffer emits no command and leaves the forwards as they are; the
\* modal closes in both cases.
C28_PortInput ==
    /\ [](modal # ModalNone =>
            /\ Len(modal.buffer) <= 5
            /\ \A i \in 1..Len(modal.buffer) : modal.buffer[i] \in 0..9)
    /\ [][modal # ModalNone /\ UpdateKey(KeyEnter) =>
            LET rp == modal.remote_port
                typed == TypedNumber(modal.buffer)
            IN /\ modal' = ModalNone
               /\ IF IsTypedPort(modal.buffer)
                  THEN /\ DOMAIN forwards' = DOMAIN forwards \cup {rp}
                       /\ forwards'[rp] =
                            [local_port |-> typed, status |-> Starting,
                             active_connections |-> 0]
                       /\ \A p \in DOMAIN forwards \ {rp} : forwards'[p] = forwards[p]
                       /\ Emitted =
                            (IF rp \in DOMAIN forwards THEN <<Stop(rp)>> ELSE <<>>)
                              \o <<Start(rp, typed, modal.remote_host)>>
                  ELSE Emitted = <<>> /\ forwards' = forwards]_vars

\* 9090 was typed for remote port 1 and confirmed
C28_Witness ==
    /\ modal = ModalNone
    /\ 1 \in DOMAIN forwards
    /\ forwards[1] = ForwardEntry(9090, Starting, 0)
    /\ cmdq = <<Start(1, 9090, "h")>>

\* the buffer is full
BufferIsFull == modal # ModalNone /\ modal.buffer = <<9, 9, 9, 9, 9>>

(***************************************************************************)
(* C29: the rebind of a forward through the port input                     *)
(***************************************************************************)
\* the port input is never open for a remote port that has an entry: F and
\* Shift+Enter open it only for a port without one, a BindError removes the
\* entry before it opens it, and no message but a key in normal mode or the
\* confirmation itself inserts an entry. The Stop of the confirmation is
\* therefore never emitted.
ModalPortHasNoEntry ==
    modal # ModalNone => modal.remote_port \notin DOMAIN forwards
ConfirmEmitsNoStop ==
    [][modal # ModalNone /\ UpdateKey(KeyEnter) =>
         \A i \in 1..Len(Emitted) : Emitted[i].type # "Stop"]_vars

ListsAscending(s, S) ==
    /\ Len(s) = Cardinality(S)
    /\ \A i \in 1..Len(s) : s[i].port \in S
    /\ \A i \in 1..Len(s), j \in 1..Len(s) : i < j => s[i].port < s[j].port

\* C30: detect_port_changes returns no change when there is no previous scan
\* or when the previous and the new set of ports are equal; otherwise it
\* returns one change for each port of new minus previous, in ascending order
\* of the ports, of kind reactivated if the forwards hold an entry of status
\* starting for the port and of kind appeared if not, followed by one change
\* of kind disappeared for each port of previous minus new, in ascending
\* order of the ports.
C30_DetectPortChanges ==
    call.fn = "detect_port_changes" =>
      LET a == call.args
          r == call.result
      IN IF a.prev_scan_ports = NoneOpt THEN r = <<>>
         ELSE LET prev == The(a.prev_scan_ports)
                  gained == a.new_scan_ports \ prev
                  lost == prev \ a.new_scan_ports
                  n == Cardinality(gained)
              IN /\ prev = a.new_scan_ports => r = <<>>
                 /\ Len(r) = n + Cardinality(lost)
                 /\ ListsAscending(SubSeq(r, 1, n), gained)
                 /\ ListsAscending(SubSeq(r, n + 1, Len(r)), lost)
                 /\ \A i \in 1..n :
                       r[i].kind =
                         IF \E p \in DOMAIN a.forwards :
                               p = r[i].port /\ a.forwards[p].status = "Starting"
                         THEN "Reactivated" ELSE "Appeared"
                 /\ \A i \in (n + 1)..Len(r) : r[i].kind = "Disappeared"

\* ports 1 and 2 appeared, 1 with an entry that is starting and 2 with one
\* that is active, and ports 3 and 4 disappeared
C30_Witness ==
    /\ call.fn = "detect_port_changes"
    /\ call.args.prev_scan_ports = Some({3, 4})
    /\ call.args.new_scan_ports = {1, 2}
    /\ DOMAIN call.args.forwards = {1, 2}
    /\ call.args.forwards[1].status = Starting
    /\ call.args.forwards[2].status = Active
    /\ Len(call.result) = 4
    /\ call.result[1] = PortChange(1, "Reactivated", NoneOpt)
    /\ call.result[2] = PortChange(2, "Appeared", Some("nginx"))
    /\ call.result[4] = PortChange(4, "Disappeared", Some("sshd"))

(***************************************************************************)
(* C31: the counts a listener sends                                        *)
(***************************************************************************)
\* C31: for each listener task, the AtomicU32 holds the number of connections
\* accepted minus the number of tunnel tasks finished, and so does the last
\* ConnectionCountChanged it sent, which holds for every event when it is
\* sent; no count is negative or wrapped around (none exceeds the number of
\* connections accepted), the first count is 1 and two consecutive counts of
\* the listener differ by exactly 1.
C31_ConnectionCounts ==
    \A id \in DOMAIN tasks :
       LET log == LogOf(id)
           n == Len(log.counts)
       IN /\ tasks[id].conns = log.accepted - log.finished
          /\ n = log.accepted + log.finished
          /\ n > 0 => log.counts[n] = log.accepted - log.finished
          /\ n > 0 => log.counts[1] = 1
          /\ \A i \in 1..n : log.counts[i] \in 0..log.accepted
          /\ \A i \in 1..(n - 1) :
                log.counts[i + 1] - log.counts[i] \in {1, -1}

\* a listener has had two tunnels open at once and one of them has finished
C31_Witness ==
    \E id \in DOMAIN tasks :
       /\ tasks[id].state = "listening"
       /\ Len(LogOf(id).counts) >= 3
       /\ \E i \in 1..Len(LogOf(id).counts) : LogOf(id).counts[i] = 2
       /\ LogOf(id).finished >= 1

(***************************************************************************)
(* C32: NotifyBatch                                                        *)
(***************************************************************************)
\* the changes of the notifications sent, in the order sent
RECURSIVE Flatten(_)
Flatten(ss) == IF ss = <<>> THEN <<>> ELSE Head(ss) \o Flatten(Tail(ss))

\* C32: a notification is sent only by flush_if_ready, only when changes are
\* pending and two seconds at least have passed since the last extend that
\* was given a change; it holds all the pending changes and the batch is then
\* empty, and flush_if_ready returns true exactly then. Every change passed
\* to extend is pending or is in one notification sent, never in two and
\* never dropped, and the changes keep their order. An extend that is given no
\* change leaves the pending changes and the start of the window as they
\* were.
C32_NotifyBatch ==
    /\ [][notifier'.shown # notifier.shown =>
            /\ notifier'.last.fn = "flush_if_ready" /\ notifier'.last.result
            /\ notifier.batch.pending # <<>>
            /\ notifier.last_extend # NoneOpt
            /\ notifier.now - The(notifier.last_extend)
                 >= NOTIFY_DEBOUNCE_SECS * TicksPerSec
            /\ notifier'.shown = Append(notifier.shown, notifier.batch.pending)
            /\ notifier'.batch.pending = <<>>]_vars
    /\ [][(notifier'.last.fn = "flush_if_ready" /\ notifier'.last.result
             /\ notifier'.last # notifier.last)
            => notifier'.shown # notifier.shown]_vars
    /\ [](Flatten(notifier.shown) \o notifier.batch.pending
            = ChangesFrom(0, notifier.extended))
    /\ [][(notifier'.last.fn = "extend" /\ notifier'.last.changes = <<>>)
            => notifier'.batch = notifier.batch]_vars

\* two notifications have been sent, one of them with two changes of
\* different calls of extend, after an extend that was given no change
C32_Witness ==
    /\ Len(notifier.shown) = 2
    /\ \E i \in 1..2 : Len(notifier.shown[i]) = 2
    /\ notifier.extended = 3
    /\ notifier.last.fn = "extend" /\ notifier.last.changes = <<>>

(***************************************************************************)
(* C33: the listeners and the active entries once the queues are empty     *)
(***************************************************************************)
\* every queued command has been executed and every forward event emitted
\* has been processed
QueuesDrained ==
    /\ cmdq = <<>>
    /\ \A i \in 1..Len(bgq) : bgq[i].type # "ForwardEvent"

ModelActive(p) == p \in DOMAIN forwards /\ forwards[p].status = Active

\* C33 as the specification states it: once the command queue is empty and
\* no forward event waits in the event queue, a local listener is bound for
\* remote port P if and only if the model holds an entry for P whose status
\* is active.
C33_ListenerBoundIffActive ==
    QueuesDrained =>
       \A p \in RemotePorts : (ListeningFor(p) # {}) <=> ModelActive(p)

(***************************************************************************)
(* C34: a Reactivate for each reappearance of a remote port                *)
(***************************************************************************)
\* C34 as the specification states it: a scan for which update emits
\* Reactivate for remote port P lists P, and the scan processed before it
\* (whose ports the model still holds) did not list P.
C34_ReactivateOnlyOnReappearance ==
    [][TakesScanReceived =>
         \A i \in 1..Len(Emitted) :
            Emitted[i].type = "Reactivate" =>
               /\ Emitted[i].remote_port \in ListedPorts(Head(bgq).scan)
               /\ Emitted[i].remote_port \notin PortSet(ports)]_vars

EventsProcessed == \A i \in 1..Len(bgq) : bgq[i].type # "ForwardEvent"

\* the tunnel tasks that run for remote port p: those of the JoinSets of its
\* listener tasks
RECURSIVE SumConns(_, _)
SumConns(ids, p) ==
    IF ids = {} THEN 0
    ELSE LET id == CHOOSE i \in ids : TRUE
         IN (IF tasks[id].remote_port = p THEN tasks[id].conns ELSE 0)
              + SumConns(ids \ {id}, p)
TunnelsRunning(p) == SumConns(DOMAIN tasks, p)

\* C36 as the specification states it: once no forward event waits in the
\* event queue, the active connection count of every forward entry equals the
\* number of tunnel tasks that run for its remote port.
C36_CountIsRunningTunnels ==
    EventsProcessed =>
       \A p \in DOMAIN forwards :
          forwards[p].active_connections = TunnelsRunning(p)

(***************************************************************************)
(* C37: the persisted list once the events are processed                   *)
(***************************************************************************)
\* nothing is in flight: no command waits for the manager, no listener task
\* waits for its first poll and no forward event waits for the main loop
NothingInFlight ==
    /\ cmdq = <<>>
    /\ EventsProcessed
    /\ \A id \in DOMAIN tasks : tasks[id].state # "spawned"

\* C37 as the specification states it, with the widest reading of "all forward
\* events have been processed" (nothing that leads to a forward event is in
\* flight either): the list persisted for the destination is the set of
\* (remote_port, local_port) pairs of the model's forward entries.
C37_PersistedIsModel ==
    NothingInFlight => saved = SaveForwards(forwards)

(***************************************************************************)
(* C38: the port input is open only for a port without forward entry       *)
(***************************************************************************)
\* C38: in every reachable state of the combined system, if the port input is
\* open for remote port P then the model holds no forward entry for P; and a
\* confirmation (Enter in the port input) finds no entry for its remote port:
\* it emits no Stop, and if it emits a command that is one Start, for which
\* it inserts the entry.
C38_ModalPortNotForwarded ==
    /\ [](modal # ModalNone => modal.remote_port \notin DOMAIN forwards)
    /\ [][(modal # ModalNone /\ bgq' = bgq /\ iterations' # iterations
             /\ UpdateKey(KeyEnter))
            => /\ modal.remote_port \notin DOMAIN forwards
               /\ \A i \in 1..Len(Emitted) : Emitted[i].type # "Stop"
               /\ Emitted # <<>> =>
                    /\ Len(Emitted) = 1 /\ Emitted[1].type = "Start"
                    /\ forwards' = Insert(forwards, modal.remote_port,
                                          ForwardEntry(Emitted[1].local_port,
                                                       Starting, 0))]_vars

\* the port input is open for a remote port, after a bind error, while a
\* forward event for that port waits in the event queue
C38_Witness ==
    /\ modal # ModalNone
    /\ modal.error # NoneOpt
    /\ EventPending(modal.remote_port)

(***************************************************************************)
(* C39: kill_stale_agent and the agents of other sessions                  *)
(***************************************************************************)
\* C39 as the specification states it: a kill command issued by the deploy of
\* one session ends only an agent whose session has ended, never the agent of
\* a session that is still connected to the account.
C39_KillsOnlyEndedSessions ==
    [][\A pid \in DOMAIN account.procs :
          (account.procs[pid].killed_by = NoneOpt
             /\ account'.procs[pid].killed_by # NoneOpt)
            => account.sessions[account.procs[pid].session] = "ended"]_vars

(***************************************************************************)
(* C40: the port list and the order of the scan                            *)
(***************************************************************************)
\* the two lists hold the same entries, in any order
SameEntries(a, b) == Len(a) = Len(b) /\ Range(a) = Range(b)

\* C40 as the specification states it: when a scan lists the same entries as
\* the scan before it, in whatever order, the model's port list after it is
\* the port list after the scan before; the port list depends on the entries
\* of the scan and not on their order.
C40_PortListIgnoresScanOrder ==
    [][(call.fn = "ScanReceived" /\ call'.fn = "ScanReceived"
          /\ SameEntries(call.args[1], call'.args[1]))
         => ports' = ports]_vars

====
